---- MODULE Spec2Model ----
(***************************************************************************)
(* Semantic embedding cache of cmsdko/semseg (cache.go): the tiered cache  *)
(* core (InMemoryCache: L0 buffer, indexed L1 segments, neighbor counter), *)
(* its background worker (flushL0 / compactL1) and the adaptive cache      *)
(* manager (Start, QueueSet, asyncWriter, activationTicker, Close).        *)
(*                                                                         *)
(* Sparse keys are total functions from Terms to small integer weights;    *)
(* weight 0 stands for "term absent from the Go map" (TF-IDF weights are   *)
(* strictly positive).  Similarity thresholds are rationals <<num, den>>.  *)
(* tfidf.CosineSimilarity is compared with a threshold over the rationals, *)
(* with the float64 rounding of its denominator taken into account where   *)
(* the exact quotient equals the threshold.                                *)
(* Positions inside a segment are 1-based here and 0-based in Go.          *)
(***************************************************************************)
EXTENDS Integers, Sequences, FiniteSets, Bags, TLC

(* ------------------------------------------------------------------ *)
(* Program constants, scaled down (cache.go:136-139 and :50).          *)
(* ------------------------------------------------------------------ *)
\* cache.go: defaultTopK = 16
defaultTopK == 1
\* cache.go: l0FlushThreshold = 512
l0FlushThreshold == 3
\* cache.go: l1CompactionTrigger = 4
l1CompactionTrigger == 2
\* cache.go: l1CompactionTargetCount = 2
l1CompactionTargetCount == 2
\* cache.go: make(chan adaptiveCacheEntry, 1024)
setQueueCap == 2

(* ------------------------------------------------------------------ *)
(* Bounds of the model.                                                *)
(* ------------------------------------------------------------------ *)
\* direct Set calls that may be between their unlock and their signal
MaxSetters == 1

Terms == {"a", "b"}
\* the keys used: {a:1}; {a:1,b:1} and {a:3,b:3}, two terms of equal weight;
\* {a:4,b:3} and {a:3,b:4}, of cosine similarity 0.96 to each other
KA == [t \in Terms |-> IF t = "a" THEN 1 ELSE 0]
KAB == [t \in Terms |-> 1]
K33 == [t \in Terms |-> 3]
K43 == [t \in Terms |-> IF t = "a" THEN 4 ELSE 3]
K34 == [t \in Terms |-> IF t = "a" THEN 3 ELSE 4]
\* keys given to Set
Keys == {KA, K43}
\* keys given to Find
QueryKeys == {KA, K43, K34}
\* keys given to Set and to Find where every entry has a key of its own
DistinctKeys == {KA, KAB, K33, K43}
\* embeddings given to Set (0 stands for the nil slice Find returns on a miss)
Embs == {1, 2}

\* thresholds as rationals <<numerator, denominator>>: 1.0 and 0.5
Thresholds == {<<1, 1>>, <<1, 2>>}
\* the similarity threshold the manager is started with: 0.9
StartThreshold == <<9, 10>>

VARIABLES
    l0Entries,          \* InMemoryCache.l0Entries: sequence of cacheEntry
    l1Segments,         \* InMemoryCache.l1Segments: sequence of l1Segment
    itemsWithNeighbors, \* InMemoryCache.itemsWithNeighbors (atomic counter)
    flushTrigger,       \* number of signals buffered in flushTrigger (cap 1)
    compactionTrigger,  \* number of signals buffered in compactionTrigger (cap 1)
    closeWorker,        \* TRUE once closeWorker is closed
    worker,             \* backgroundWorker goroutine: position and locals
    setters,            \* direct Set calls past Unlock with shouldFlush = true
    lastCall,           \* the call of Set or Find made by the last step, if it was one
    inserted,           \* bag of entries appended by Set so far (history)
    panicked,           \* "no", or the panic that ended the process
    isActivated,        \* adaptiveCacheManager.isActivated
    startOnce,          \* TRUE once startOnce.Do has run
    setQueue,           \* contents of the setQueue channel buffer
    setQueueClosed,     \* TRUE once setQueue is closed
    tickerStop,         \* TRUE once tickerStop is closed
    activationThreshold,
    similarityThreshold,
    writer,             \* asyncWriter goroutine: position and the entry in hand
    ticker,             \* activationTicker goroutine: position
    closer,             \* adaptiveCacheManager.Close in progress: position
    nCloses,            \* Close calls made so far (history)
    accepted,           \* entries QueueSet put on the queue so far (history)
    chunker,            \* a call of Segment: its options, sentences and result
    batch               \* a call of getOllamaEmbeddings: position, locals, calls made

coreVars == <<l0Entries, l1Segments, itemsWithNeighbors, flushTrigger,
              compactionTrigger, closeWorker, worker, setters, lastCall,
              inserted, panicked>>
mgrVars == <<isActivated, startOnce, setQueue, setQueueClosed, tickerStop,
             activationThreshold, similarityThreshold, writer, ticker,
             closer, nCloses, accepted>>
\* the variables of the orchestrator (Segment and getOllamaEmbeddings)
orchVars == <<chunker, batch>>
vars == <<coreVars, mgrVars, orchVars>>
\* the variables of the core other than lastCall
coreVarsButCall == <<l0Entries, l1Segments, itemsWithNeighbors, flushTrigger,
                     compactionTrigger, closeWorker, worker, setters, inserted, panicked>>

(* ------------------------------------------------------------------ *)
(* tfidf.CosineSimilarity, compared against a threshold.               *)
(* ------------------------------------------------------------------ *)
RECURSIVE SumOver(_, _, _)
SumOver(S, u, v) ==
    IF S = {} THEN 0
    ELSE LET t == CHOOSE x \in S : TRUE
         IN u[t] * v[t] + SumOver(S \ {t}, u, v)

dotProduct(u, v) == SumOver(Terms, u, v)

\* The denominator math.Sqrt(normA) * math.Sqrt(normB) as float64 arithmetic
\* computes it, against the exact root of normA * normB, for the norms of the
\* keys above (1, 2, 18, 25): Sqrt(2) * Sqrt(2) = 2.0000000000000004,
\* Sqrt(18) * Sqrt(18) = 17.999999999999996, the other products are exact.
denominatorRounding(normA, normB) ==
    IF normA = 2 /\ normB = 2 THEN "above"
    ELSE IF normA = 18 /\ normB = 18 THEN "below"
    ELSE "exact"

\* CosineSimilarity(u, v) >= T, T = <<n, d>> with n >= 0, d > 0.
\* 0.0 is returned when either norm is 0.  When the exact quotient equals T
\* the rounding decides: a denominator rounded above gives a quotient below T
\* ({a:1,b:1} against itself gives 0.9999999999999998).
CosineSimilarityGE(u, v, T) ==
    LET normA == dotProduct(u, u)
        normB == dotProduct(v, v)
        dp    == dotProduct(u, v)
        lhs   == (dp * T[2]) * (dp * T[2])
        rhs   == (T[1] * T[1]) * (normA * normB)
    IN IF normA = 0 \/ normB = 0
       THEN T[1] <= 0
       ELSE \/ lhs > rhs
            \/ lhs = rhs /\ denominatorRounding(normA, normB) # "above"

(* ------------------------------------------------------------------ *)
(* getTopK and buildIndex.                                              *)
(* ------------------------------------------------------------------ *)
\* the terms present in the Go map
keyTerms(vector) == {t \in Terms : vector[t] > 0}

\* getTopK(vector, k): every term when len(vector) <= k; otherwise the first
\* k terms after sort.Slice by descending score.  sort.Slice is not stable
\* and the input order is the map's iteration order, so terms of equal score
\* may come out in any order: every k-subset closed under "higher score" is
\* a possible result.
getTopK(vector, k) ==
    IF Cardinality(keyTerms(vector)) <= k
    THEN {keyTerms(vector)}
    ELSE {S \in SUBSET keyTerms(vector) :
            /\ Cardinality(S) = k
            /\ \A t \in S, u \in keyTerms(vector) \ S : vector[t] >= vector[u]}

\* the getTopK results of the entries of a segment, one per entry, in order
RECURSIVE topTermsOf(_, _)
topTermsOf(entries, k) ==
    IF entries = <<>> THEN {<<>>}
    ELSE {<<S>> \o rest : S \in getTopK(entries[1].tfidfVector, k),
                          rest \in topTermsOf(Tail(entries), k)}

\* buildIndex(entries, k): a posting at position i under each top term of entry i
buildIndex(entries, k) ==
    {[t \in Terms |-> {i \in 1..Len(entries) : t \in c[i]}] : c \in topTermsOf(entries, k)}

(* A []float64 value is an integer that tells its contents and who can reach  *)
(* its backing array: v in 1..9 is an array with contents v that only the     *)
(* cache references; -v is an array with contents v that the caller passed in *)
(* and still holds; 10 + v is an array with contents v that was just made     *)
(* (make + copy) and that nothing else references yet; 0 is nil.              *)
callerArray(v) == 0 - v
newArray(v) == 10 + v
contents(e) == IF e < 0 THEN 0 - e ELSE e % 10

\* (variant of copyEmbedding: the slice itself is handed on, no new array is made)
sameArray(e) == e

\* copyEmbedding(e): a new array with the contents of e
copyEmbedding(e) == newArray(contents(e))

\* a slice as it is once an entry of the cache references it: a new array is
\* from then on an array only the cache references
storedSlice(e) == IF e > 10 THEN contents(e) ELSE e

(* ------------------------------------------------------------------ *)
(* Helpers over the stored entries.                                    *)
(* ------------------------------------------------------------------ *)
RECURSIVE SeqBag(_)
SeqBag(s) ==
    IF s = <<>> THEN EmptyBag ELSE SetToBag({s[1]}) (+) SeqBag(Tail(s))

RECURSIVE SegmentsBag(_)
SegmentsBag(segs) ==
    IF segs = <<>> THEN EmptyBag
    ELSE SeqBag(segs[1].entries) (+) SegmentsBag(Tail(segs))

\* the elements of a sequence
SeqRangeOf(seq) == {seq[i] : i \in 1..Len(seq)}

RECURSIVE mergedEntries(_)
mergedEntries(segs) ==
    IF segs = <<>> THEN <<>> ELSE segs[1].entries \o mergedEntries(Tail(segs))

NoCall == [op |-> "none"]
\* no call of Segment is under way
NoSegment == [pc |-> "none"]
\* no call of getOllamaEmbeddings is under way
NoBatch == [pc |-> "none"]

\* the cache and the manager after construction
InitCache ==
    /\ l0Entries = <<>>
    /\ l1Segments = <<>>
    /\ itemsWithNeighbors = 0
    /\ flushTrigger = 0
    /\ compactionTrigger = 0
    /\ closeWorker = FALSE
    /\ worker = [pc |-> "select"]
    /\ setters = 0
    /\ lastCall = NoCall
    /\ inserted = EmptyBag
    /\ panicked = "no"
    /\ isActivated = FALSE
    /\ startOnce = FALSE
    /\ setQueue = <<>>
    /\ setQueueClosed = FALSE
    /\ tickerStop = FALSE
    /\ activationThreshold = 0
    /\ similarityThreshold = <<0, 1>>
    /\ writer = [pc |-> "none"]
    /\ ticker = "none"
    /\ closer = "none"
    /\ nCloses = 0
    /\ accepted = 0

Init ==
    /\ InitCache
    /\ chunker = NoSegment
    /\ batch = NoBatch

(* ------------------------------------------------------------------ *)
(* InMemoryCache.Set                                                   *)
(* ------------------------------------------------------------------ *)
\* (variant of isNewNeighborFound: the scan also covers the entries of L1)
isNewNeighborFoundAnyTier(key, T) ==
    \/ \E i \in 1..Len(l0Entries) : CosineSimilarityGE(key, l0Entries[i].tfidfVector, T)
    \/ \E s \in 1..Len(l1Segments) : \E i \in 1..Len(l1Segments[s].entries) :
          CosineSimilarityGE(key, l1Segments[s].entries[i].tfidfVector, T)

\* the neighbor scan of Set: some entry of L0 is within the threshold
isNewNeighborFound(key, T) ==
    \E i \in 1..Len(l0Entries) : CosineSimilarityGE(key, l0Entries[i].tfidfVector, T)

\* Set between Lock and Unlock: count the neighbor, append a copy to L0.
\* The result of the size check, shouldFlush, is Len(l0Entries') >= l0FlushThreshold.
SetLocked(key, embedding, T) ==
    /\ itemsWithNeighbors' =
         IF isNewNeighborFound(key, T) THEN itemsWithNeighbors + 1 ELSE itemsWithNeighbors
    /\ l0Entries' = Append(l0Entries,
                           [tfidfVector |-> key,
                            denseEmbedding |-> storedSlice(copyEmbedding(embedding))])
    /\ inserted' = inserted (+)
                     SetToBag({[tfidfVector |-> key, denseEmbedding |-> contents(embedding)]})

\* (variant of flushSignalSent: every signal is buffered, none is dropped)
flushSignalQueued == flushTrigger + 1

\* Set after Unlock: the non-blocking send on flushTrigger (dropped when full)
flushSignalSent == IF flushTrigger = 0 THEN 1 ELSE flushTrigger

\* (variant of Set: shouldFlush only once L0 is above the threshold)
SetFlushingAbove(key, embedding, T) ==
    /\ panicked = "no"
    /\ setters < MaxSetters
    /\ SetLocked(key, embedding, T)
    /\ setters' = IF Len(l0Entries') > l0FlushThreshold THEN setters + 1 ELSE setters
    /\ lastCall' = [op |-> "Set", key |-> key, threshold |-> T]
    /\ UNCHANGED <<l1Segments, flushTrigger, compactionTrigger, closeWorker, worker,
                   panicked, mgrVars>>

\* A direct call of Set, up to and including Unlock.
Set(key, embedding, T) ==
    /\ panicked = "no"
    /\ setters < MaxSetters
    /\ SetLocked(key, embedding, T)
    /\ setters' = IF Len(l0Entries') >= l0FlushThreshold THEN setters + 1 ELSE setters
    /\ lastCall' = [op |-> "Set", key |-> key, threshold |-> T]
    /\ UNCHANGED <<l1Segments, flushTrigger, compactionTrigger, closeWorker, worker,
                   panicked, mgrVars>>

\* The rest of a direct Set whose shouldFlush is true: the select on flushTrigger.
SetSignal ==
    /\ panicked = "no"
    /\ UNCHANGED orchVars
    /\ setters > 0
    /\ setters' = setters - 1
    /\ flushTrigger' = flushSignalSent
    /\ UNCHANGED <<l0Entries, l1Segments, itemsWithNeighbors, compactionTrigger,
                   closeWorker, worker, inserted, panicked, mgrVars>>
    /\ lastCall' = NoCall

(* ------------------------------------------------------------------ *)
(* InMemoryCache.AnalyzeSimilarity and InMemoryCache.Find              *)
(* ------------------------------------------------------------------ *)
AnalyzeSimilarity(T) == itemsWithNeighbors

\* (variant of l0Hits: a similarity equal to the threshold is not a hit)
l0HitsStrict(key, T) ==
    {i \in 1..Len(l0Entries) :
        LET v == l0Entries[i].tfidfVector
            dp == dotProduct(key, v)
        IN /\ dotProduct(key, key) # 0
           /\ dotProduct(v, v) # 0
           /\ (dp * T[2]) * (dp * T[2]) >
                (T[1] * T[1]) * (dotProduct(key, key) * dotProduct(v, v))}

\* positions of L0 whose key is within the threshold of the query
l0Hits(key, T) ==
    {i \in 1..Len(l0Entries) : CosineSimilarityGE(key, l0Entries[i].tfidfVector, T)}

\* candidates of one segment: the union of the postings of the query's top terms
candidates(segment, topTerms) == UNION {segment.index[t] : t \in topTerms}

\* (variant of segmentHits: every candidate is taken as a hit, unverified)
segmentHitsUnverified(segment, key, T, topTerms) == candidates(segment, topTerms)

\* the candidates of one segment that pass the exact similarity check
segmentHits(segment, key, T, topTerms) ==
    {idx \in candidates(segment, topTerms) :
        CosineSimilarityGE(key, segment.entries[idx].tfidfVector, T)}

\* the loop over l1Segments from index i down to 1; a segment's candidates are
\* visited in map order, so any of its hits may be the one returned
RECURSIVE probeSegments(_, _, _, _)
probeSegments(key, T, topTerms, i) ==
    IF i = 0 THEN {[found |-> FALSE, embedding |-> 0, tier |-> "none"]}
    ELSE LET hits == segmentHits(l1Segments[i], key, T, topTerms)
         IN IF hits # {}
            THEN {[found |-> TRUE,
                   embedding |-> copyEmbedding(l1Segments[i].entries[idx].denseEmbedding),
                   tier |-> "L1"] : idx \in hits}
            ELSE probeSegments(key, T, topTerms, i - 1)

\* (variant of FindResults: the scan of L0 returns its last match)
FindResultsLastL0(key, T) ==
    IF l0Hits(key, T) # {}
    THEN LET i == CHOOSE j \in l0Hits(key, T) : \A m \in l0Hits(key, T) : j >= m
         IN {[found |-> TRUE,
              embedding |-> copyEmbedding(l0Entries[i].denseEmbedding),
              tier |-> "L0"]}
    ELSE UNION {probeSegments(key, T, topTerms, Len(l1Segments)) :
                  topTerms \in getTopK(key, defaultTopK)}

\* everything Find(key, T) can return in the current state
FindResults(key, T) ==
    IF l0Hits(key, T) # {}
    THEN LET i == CHOOSE j \in l0Hits(key, T) : \A m \in l0Hits(key, T) : j <= m
         IN {[found |-> TRUE,
              embedding |-> copyEmbedding(l0Entries[i].denseEmbedding),
              tier |-> "L0"]}
    ELSE UNION {probeSegments(key, T, topTerms, Len(l1Segments)) :
                  topTerms \in getTopK(key, defaultTopK)}

\* A call of Find (under the read lock: one step).
Find(key, T) ==
    /\ panicked = "no"
    /\ \E r \in FindResults(key, T) :
         lastCall' = [op |-> "Find", key |-> key, threshold |-> T, found |-> r.found,
                     embedding |-> r.embedding, tier |-> r.tier]
    /\ UNCHANGED <<l0Entries, l1Segments, itemsWithNeighbors, flushTrigger,
                   compactionTrigger, closeWorker, worker, setters, inserted,
                   panicked, mgrVars>>

(* ------------------------------------------------------------------ *)
(* The caller writing into slices and maps it still holds.             *)
(* ------------------------------------------------------------------ *)
\* the caller holds the arrays it passed in and the array the last Find returned
heldByCaller(e) ==
    \/ e < 0
    \/ lastCall.op = "Find" /\ lastCall.found /\ e = lastCall.embedding

\* a slice after the caller has written w into every array it holds
written(e, w) ==
    IF heldByCaller(e) THEN (IF e < 0 THEN callerArray(w) ELSE w) ELSE e

\* f applied to every entry of a sequence of entries, of a list of segments,
\* and of the slices the worker holds in its locals
mapEntries(f(_), entries) == [i \in 1..Len(entries) |-> f(entries[i])]
mapSegments(f(_), segs) ==
    [i \in 1..Len(segs) |-> [segs[i] EXCEPT !.entries = mapEntries(f, @)]]
mapWorker(f(_)) ==
    IF worker.pc = "flushBuild"
    THEN [worker EXCEPT !.entriesToFlush = mapEntries(f, @)]
    ELSE IF worker.pc = "compactBuild"
    THEN [worker EXCEPT !.segmentsToCompact = mapSegments(f, @),
                        !.remainingSegments = mapSegments(f, @)]
    ELSE worker

\* The caller overwrites the contents of the embedding slices it holds with w:
\* every entry that references one of those arrays sees the new contents.
CallerWritesEmbedding(w) ==
    /\ panicked = "no"
    /\ UNCHANGED orchVars
    /\ LET f(e) == [e EXCEPT !.denseEmbedding = written(@, w)]
       IN /\ l0Entries' = mapEntries(f, l0Entries)
          /\ l1Segments' = mapSegments(f, l1Segments)
          /\ worker' = mapWorker(f)
    /\ lastCall' = [op |-> "WriteEmbedding", embedding |-> w]
    /\ UNCHANGED <<itemsWithNeighbors, flushTrigger, compactionTrigger, closeWorker,
                   setters, inserted, panicked, mgrVars>>

\* The caller changes the map it passed to Set as key from old to new (the same
\* map object is passed whenever the same key is passed): cacheEntry.tfidfVector
\* is that map, so every entry that was stored with it sees the change.
CallerWritesKey(old, new) ==
    /\ panicked = "no"
    /\ UNCHANGED orchVars
    /\ \E e \in BagToSet(inserted) : e.tfidfVector = old
    /\ LET f(e) == IF e.tfidfVector = old THEN [e EXCEPT !.tfidfVector = new] ELSE e
       IN /\ l0Entries' = mapEntries(f, l0Entries)
          /\ l1Segments' = mapSegments(f, l1Segments)
          /\ worker' = mapWorker(f)
    /\ lastCall' = [op |-> "WriteKey", key |-> old, new |-> new]
    /\ UNCHANGED <<itemsWithNeighbors, flushTrigger, compactionTrigger, closeWorker,
                   setters, inserted, panicked, mgrVars>>

(* ------------------------------------------------------------------ *)
(* InMemoryCache.Close                                                 *)
(* ------------------------------------------------------------------ *)
\* close(c.closeWorker): closing a closed channel panics
closeChannel(isClosed) == [closed |-> TRUE, panic |-> isClosed]

Close ==
    /\ panicked = "no"
    /\ UNCHANGED orchVars
    /\ closer = "none"
    /\ closeWorker' = closeChannel(closeWorker).closed
    /\ panicked' = IF closeChannel(closeWorker).panic THEN "close of closed channel" ELSE panicked
    /\ nCloses' = nCloses + 1
    /\ UNCHANGED <<l0Entries, l1Segments, itemsWithNeighbors, flushTrigger,
                   compactionTrigger, worker, setters, inserted>>
    /\ lastCall' = NoCall
    /\ UNCHANGED <<isActivated, startOnce, setQueue, setQueueClosed, tickerStop,
                   activationThreshold, similarityThreshold, writer, ticker, closer,
                   accepted>>

(* ------------------------------------------------------------------ *)
(* backgroundWorker, flushL0, compactL1                                *)
(* ------------------------------------------------------------------ *)
workerUnchanged == <<itemsWithNeighbors, closeWorker, setters, inserted,
                     panicked, mgrVars>>

\* select: case <-c.flushTrigger
backgroundWorkerFlush ==
    /\ panicked = "no"
    /\ UNCHANGED orchVars
    /\ lastCall' = NoCall
    /\ worker.pc = "select"
    /\ flushTrigger > 0
    /\ flushTrigger' = flushTrigger - 1
    /\ worker' = [pc |-> "flushL0"]
    /\ UNCHANGED <<l0Entries, l1Segments, compactionTrigger, workerUnchanged>>

\* select: case <-c.compactionTrigger
backgroundWorkerCompact ==
    /\ panicked = "no"
    /\ UNCHANGED orchVars
    /\ lastCall' = NoCall
    /\ worker.pc = "select"
    /\ compactionTrigger > 0
    /\ compactionTrigger' = compactionTrigger - 1
    /\ worker' = [pc |-> "compactL1"]
    /\ UNCHANGED <<l0Entries, l1Segments, flushTrigger, workerUnchanged>>

\* select: case <-c.closeWorker (a closed channel is always ready)
backgroundWorkerClose ==
    /\ panicked = "no"
    /\ UNCHANGED orchVars
    /\ lastCall' = NoCall
    /\ worker.pc = "select"
    /\ closeWorker
    /\ worker' = [pc |-> "terminated"]
    /\ UNCHANGED <<l0Entries, l1Segments, flushTrigger, compactionTrigger,
                   workerUnchanged>>

\* (variant of flushL0Swap: draining L0 also restarts the neighbor counter)
flushL0SwapRecounting ==
    /\ panicked = "no"
    /\ UNCHANGED orchVars
    /\ lastCall' = NoCall
    /\ worker.pc = "flushL0"
    /\ IF Len(l0Entries) = 0
       THEN /\ worker' = [pc |-> "select"]
            /\ UNCHANGED <<l0Entries, itemsWithNeighbors>>
       ELSE /\ worker' = [pc |-> "flushBuild", entriesToFlush |-> l0Entries]
            /\ l0Entries' = <<>>
            /\ itemsWithNeighbors' = 0
    /\ UNCHANGED <<l1Segments, flushTrigger, compactionTrigger, closeWorker, setters,
                   inserted, panicked, mgrVars>>

\* (variant of flushL0Swap: a flush takes at most l0FlushThreshold entries)
flushL0SwapOneBatch ==
    /\ panicked = "no"
    /\ UNCHANGED orchVars
    /\ lastCall' = NoCall
    /\ worker.pc = "flushL0"
    /\ IF Len(l0Entries) = 0
       THEN /\ worker' = [pc |-> "select"]
            /\ UNCHANGED l0Entries
       ELSE /\ worker' = [pc |-> "flushBuild",
                          entriesToFlush |->
                              SubSeq(l0Entries, 1,
                                     IF Len(l0Entries) < l0FlushThreshold
                                     THEN Len(l0Entries) ELSE l0FlushThreshold)]
            /\ l0Entries' = SubSeq(l0Entries, Len(worker'.entriesToFlush) + 1,
                                   Len(l0Entries))
    /\ UNCHANGED <<l1Segments, flushTrigger, compactionTrigger, workerUnchanged>>

\* flushL0, first critical section: return on an empty L0, else swap L0 out
flushL0Swap ==
    /\ panicked = "no"
    /\ UNCHANGED orchVars
    /\ lastCall' = NoCall
    /\ worker.pc = "flushL0"
    /\ IF Len(l0Entries) = 0
       THEN /\ worker' = [pc |-> "select"]
            /\ UNCHANGED l0Entries
       ELSE /\ worker' = [pc |-> "flushBuild", entriesToFlush |-> l0Entries]
            /\ l0Entries' = <<>>
    /\ UNCHANGED <<l1Segments, flushTrigger, compactionTrigger, workerUnchanged>>

\* the segment flushL0 builds from the drained buffer
newSegment(entries, index) == [entries |-> entries, index |-> index]

\* flushL0, buildIndex and second critical section: append the new segment
flushL0Append ==
    /\ panicked = "no"
    /\ UNCHANGED orchVars
    /\ lastCall' = NoCall
    /\ worker.pc = "flushBuild"
    /\ \E newIndex \in buildIndex(worker.entriesToFlush, defaultTopK) :
         l1Segments' = Append(l1Segments, newSegment(worker.entriesToFlush, newIndex))
    /\ worker' = [pc |-> "flushSignal",
                  shouldCompact |-> Len(l1Segments') > l1CompactionTrigger]
    /\ UNCHANGED <<l0Entries, flushTrigger, compactionTrigger, workerUnchanged>>

\* (variant of flushL0Signal: the flush goes on into compactL1 itself)
flushL0SignalCompacting ==
    /\ panicked = "no"
    /\ UNCHANGED orchVars
    /\ lastCall' = NoCall
    /\ worker.pc = "flushSignal"
    /\ worker' = IF worker.shouldCompact THEN [pc |-> "compactL1"] ELSE [pc |-> "select"]
    /\ UNCHANGED <<l0Entries, l1Segments, flushTrigger, compactionTrigger, workerUnchanged>>

\* flushL0, the non-blocking send on compactionTrigger
flushL0Signal ==
    /\ panicked = "no"
    /\ UNCHANGED orchVars
    /\ lastCall' = NoCall
    /\ worker.pc = "flushSignal"
    /\ compactionTrigger' =
         IF worker.shouldCompact /\ compactionTrigger = 0 THEN 1 ELSE compactionTrigger
    /\ worker' = [pc |-> "select"]
    /\ UNCHANGED <<l0Entries, l1Segments, flushTrigger, workerUnchanged>>

\* compactL1, first critical section: return below the trigger, else take the slices
compactL1Take ==
    /\ panicked = "no"
    /\ UNCHANGED orchVars
    /\ lastCall' = NoCall
    /\ worker.pc = "compactL1"
    /\ IF Len(l1Segments) < l1CompactionTrigger
       THEN worker' = [pc |-> "select"]
       ELSE worker' = [pc |-> "compactBuild",
                       segmentsToCompact |-> SubSeq(l1Segments, 1, l1CompactionTargetCount),
                       remainingSegments |->
                           SubSeq(l1Segments, l1CompactionTargetCount + 1, Len(l1Segments))]
    /\ UNCHANGED <<l0Entries, l1Segments, flushTrigger, compactionTrigger, workerUnchanged>>

\* (variant of compactL1Replace: the merged segment goes to the end of the list)
compactL1ReplaceAtEnd ==
    /\ panicked = "no"
    /\ UNCHANGED orchVars
    /\ lastCall' = NoCall
    /\ worker.pc = "compactBuild"
    /\ \E newIndex \in buildIndex(mergedEntries(worker.segmentsToCompact), defaultTopK) :
         l1Segments' = worker.remainingSegments
                         \o <<newSegment(mergedEntries(worker.segmentsToCompact), newIndex)>>
    /\ worker' = [pc |-> "select"]
    /\ UNCHANGED <<l0Entries, flushTrigger, compactionTrigger, workerUnchanged>>

\* compactL1, merge, buildIndex and second critical section: splice the list
compactL1Replace ==
    /\ panicked = "no"
    /\ UNCHANGED orchVars
    /\ lastCall' = NoCall
    /\ worker.pc = "compactBuild"
    /\ \E newIndex \in buildIndex(mergedEntries(worker.segmentsToCompact), defaultTopK) :
         l1Segments' = <<newSegment(mergedEntries(worker.segmentsToCompact), newIndex)>>
                         \o worker.remainingSegments
    /\ worker' = [pc |-> "select"]
    /\ UNCHANGED <<l0Entries, flushTrigger, compactionTrigger, workerUnchanged>>

(* ------------------------------------------------------------------ *)
(* adaptiveCacheManager                                                *)
(* ------------------------------------------------------------------ *)
\* (variant of Start: the body runs on every call)
StartEveryTime(simThreshold, actThreshold) ==
    /\ panicked = "no"
    /\ lastCall' = [op |-> "Start", similarityThreshold |-> simThreshold,
                    activationThreshold |-> actThreshold]
    /\ startOnce' = TRUE
    /\ similarityThreshold' = simThreshold
    /\ activationThreshold' = actThreshold
    /\ writer' = [pc |-> "range"]
    /\ ticker' = "running"
    /\ UNCHANGED <<l0Entries, l1Segments, itemsWithNeighbors, flushTrigger,
                   compactionTrigger, closeWorker, worker, setters, inserted, panicked>>
    /\ UNCHANGED <<isActivated, setQueue, setQueueClosed, tickerStop, closer, nCloses,
                   accepted>>

\* Start: the body runs once (startOnce); later calls do nothing.
Start(simThreshold, actThreshold) ==
    /\ panicked = "no"
    /\ lastCall' = [op |-> "Start", similarityThreshold |-> simThreshold,
                    activationThreshold |-> actThreshold]
    /\ IF startOnce
       THEN UNCHANGED <<startOnce, similarityThreshold, activationThreshold, writer, ticker>>
       ELSE /\ startOnce' = TRUE
            /\ similarityThreshold' = simThreshold
            /\ activationThreshold' = actThreshold
            /\ writer' = [pc |-> "range"]
            /\ ticker' = "running"
    /\ UNCHANGED <<l0Entries, l1Segments, itemsWithNeighbors, flushTrigger,
                   compactionTrigger, closeWorker, worker, setters, inserted, panicked>>
    /\ UNCHANGED <<isActivated, setQueue, setQueueClosed, tickerStop, closer, nCloses,
                   accepted>>

IsActivated == isActivated

\* (variant of QueueSet: a full queue makes room by discarding its oldest entry)
QueueSetOverwriting(key, embedding) ==
    /\ panicked = "no"
    /\ ~setQueueClosed
    /\ lastCall' = [op |-> "QueueSet", key |-> key, embedding |-> embedding,
                    queued |-> Len(setQueue) < setQueueCap]
    /\ setQueue' = Append(IF Len(setQueue) < setQueueCap THEN setQueue ELSE Tail(setQueue),
                          [key |-> key, embedding |-> embedding])
    /\ accepted' = IF Len(setQueue) < setQueueCap THEN accepted + 1 ELSE accepted
    /\ UNCHANGED <<l0Entries, l1Segments, itemsWithNeighbors, flushTrigger,
                   compactionTrigger, closeWorker, worker, setters, inserted, panicked>>
    /\ UNCHANGED <<isActivated, startOnce, setQueueClosed, tickerStop,
                   activationThreshold, similarityThreshold, writer, ticker, closer,
                   nCloses>>

\* QueueSet: select { case m.setQueue <- entry: ; default: drop }.  A send on a
\* closed channel panics, also inside a select with a default case.
QueueSet(key, embedding) ==
    /\ panicked = "no"
    /\ lastCall' = [op |-> "QueueSet", key |-> key, embedding |-> embedding,
                    queued |-> ~setQueueClosed /\ Len(setQueue) < setQueueCap]
    /\ IF setQueueClosed
       THEN /\ panicked' = "send on closed channel"
            /\ UNCHANGED <<setQueue, accepted>>
       ELSE /\ UNCHANGED panicked
            /\ IF Len(setQueue) < setQueueCap
               THEN /\ setQueue' = Append(setQueue,
                                          [key |-> key, embedding |-> embedding])
                    /\ accepted' = accepted + 1
               ELSE UNCHANGED <<setQueue, accepted>>
    /\ UNCHANGED <<l0Entries, l1Segments, itemsWithNeighbors, flushTrigger,
                   compactionTrigger, closeWorker, worker, setters, inserted>>
    /\ UNCHANGED <<isActivated, startOnce, setQueueClosed, tickerStop,
                   activationThreshold, similarityThreshold, writer, ticker, closer,
                   nCloses>>

\* adaptiveCacheManager.Set proxies to the cache: the same steps as Set.
ManagerSet(key, embedding, T) == Set(key, embedding, T)

\* adaptiveCacheManager.Find proxies to the cache.
ManagerFind(key, T) == Find(key, T)

\* asyncWriter, "for entry := range m.setQueue": receive the next entry, or
\* leave the loop once the channel is closed and drained.
asyncWriterRange ==
    /\ panicked = "no"
    /\ UNCHANGED orchVars
    /\ lastCall' = NoCall
    /\ writer.pc = "range"
    /\ \/ /\ Len(setQueue) > 0
          /\ writer' = [pc |-> "Set", entry |-> Head(setQueue)]
          /\ setQueue' = Tail(setQueue)
       \/ /\ Len(setQueue) = 0
          /\ setQueueClosed
          /\ writer' = [pc |-> "done"]
          /\ UNCHANGED setQueue
    /\ UNCHANGED <<coreVarsButCall, isActivated, startOnce, setQueueClosed, tickerStop,
                   activationThreshold, similarityThreshold, ticker, closer, nCloses,
                   accepted>>

\* asyncWriter: m.cache.Set(entry.key, entry.embedding, m.similarityThreshold),
\* up to and including Unlock
asyncWriterSet ==
    /\ panicked = "no"
    /\ UNCHANGED orchVars
    /\ writer.pc = "Set"
    /\ SetLocked(writer.entry.key, writer.entry.embedding, similarityThreshold)
    /\ lastCall' = [op |-> "Set", key |-> writer.entry.key,
                    threshold |-> similarityThreshold]
    /\ writer' = IF Len(l0Entries') >= l0FlushThreshold
                 THEN [pc |-> "signal"] ELSE [pc |-> "range"]
    /\ UNCHANGED <<l1Segments, flushTrigger, compactionTrigger, closeWorker, worker,
                   setters, panicked>>
    /\ UNCHANGED <<isActivated, startOnce, setQueue, setQueueClosed, tickerStop,
                   activationThreshold, similarityThreshold, ticker, closer, nCloses,
                   accepted>>

\* asyncWriter: the rest of that Set, the select on flushTrigger
asyncWriterSignal ==
    /\ panicked = "no"
    /\ UNCHANGED orchVars
    /\ lastCall' = NoCall
    /\ writer.pc = "signal"
    /\ flushTrigger' = flushSignalSent
    /\ writer' = [pc |-> "range"]
    /\ UNCHANGED <<l0Entries, l1Segments, itemsWithNeighbors, compactionTrigger,
                   closeWorker, worker, setters, inserted, panicked>>
    /\ UNCHANGED <<isActivated, startOnce, setQueue, setQueueClosed, tickerStop,
                   activationThreshold, similarityThreshold, ticker, closer, nCloses,
                   accepted>>

\* (variant of activationCheck: the counter must exceed the threshold)
activationCheckStrict ==
    IF AnalyzeSimilarity(similarityThreshold) > activationThreshold
    THEN TRUE ELSE isActivated

\* (variant of activationCheck: one neighbor short of the threshold is enough)
activationCheckOneShort ==
    IF AnalyzeSimilarity(similarityThreshold) + 1 >= activationThreshold
    THEN TRUE ELSE isActivated

\* what one activation check leaves in isActivated
activationCheck ==
    IF AnalyzeSimilarity(similarityThreshold) >= activationThreshold
    THEN TRUE ELSE isActivated

\* (variant of activationTickerTick: the loop goes on after activating)
activationTickerTickNoReturn ==
    /\ panicked = "no"
    /\ UNCHANGED orchVars
    /\ lastCall' = NoCall
    /\ ticker = "running"
    /\ IF IsActivated
       THEN /\ ticker' = "done"
            /\ UNCHANGED isActivated
       ELSE /\ isActivated' = activationCheck
            /\ ticker' = "running"
    /\ UNCHANGED <<coreVarsButCall, startOnce, setQueue, setQueueClosed, tickerStop,
                   activationThreshold, similarityThreshold, writer, closer, nCloses,
                   accepted>>

\* activationTicker, case <-ticker.C: return when activated; else read the
\* counter, and activate and return once it has reached the threshold
activationTickerTick ==
    /\ panicked = "no"
    /\ UNCHANGED orchVars
    /\ lastCall' = NoCall
    /\ ticker = "running"
    /\ IF IsActivated
       THEN /\ ticker' = "done"
            /\ UNCHANGED isActivated
       ELSE /\ isActivated' = activationCheck
            /\ ticker' = IF isActivated' THEN "done" ELSE "running"
    /\ UNCHANGED <<coreVarsButCall, startOnce, setQueue, setQueueClosed, tickerStop,
                   activationThreshold, similarityThreshold, writer, closer, nCloses,
                   accepted>>

\* activationTicker, case <-m.tickerStop
activationTickerStop ==
    /\ panicked = "no"
    /\ UNCHANGED orchVars
    /\ lastCall' = NoCall
    /\ ticker = "running"
    /\ tickerStop
    /\ ticker' = "done"
    /\ UNCHANGED <<coreVarsButCall, isActivated, startOnce, setQueue, setQueueClosed,
                   tickerStop, activationThreshold, similarityThreshold, writer, closer,
                   nCloses, accepted>>

\* The caller overwrites the contents of the embedding slices it passed to
\* QueueSet with w: the queued entries and the entry in the writer's hands hold
\* the caller's slices themselves and see the new contents.
CallerWritesQueued(w) ==
    /\ panicked = "no"
    /\ UNCHANGED orchVars
    /\ Len(setQueue) > 0 \/ writer.pc = "Set"
    /\ setQueue' = [i \in 1..Len(setQueue) |->
                      [setQueue[i] EXCEPT !.embedding = written(@, w)]]
    /\ writer' = IF writer.pc = "Set"
                 THEN [writer EXCEPT !.entry.embedding = written(@, w)]
                 ELSE writer
    /\ lastCall' = [op |-> "WriteEmbedding", embedding |-> w]
    /\ UNCHANGED <<coreVarsButCall, isActivated, startOnce, setQueueClosed, tickerStop,
                   activationThreshold, similarityThreshold, ticker, closer, nCloses,
                   accepted>>

\* adaptiveCacheManager.Close, first part: m.cache.Close() and m.startOnce.Do
ManagerCloseCache ==
    /\ panicked = "no"
    /\ UNCHANGED orchVars
    /\ lastCall' = NoCall
    /\ closer = "none"
    /\ closeWorker' = closeChannel(closeWorker).closed
    /\ nCloses' = nCloses + 1
    /\ IF closeChannel(closeWorker).panic
       THEN /\ panicked' = "close of closed channel"
            /\ UNCHANGED <<startOnce, closer>>
       ELSE /\ UNCHANGED panicked
            /\ startOnce' = TRUE
            /\ closer' = "closeQueue"
    /\ UNCHANGED <<l0Entries, l1Segments, itemsWithNeighbors, flushTrigger,
                   compactionTrigger, worker, setters, inserted>>
    /\ UNCHANGED <<isActivated, setQueue, setQueueClosed, tickerStop,
                   activationThreshold, similarityThreshold, writer, ticker, accepted>>

\* (variant of ManagerCloseQueue: Close goes on without closing setQueue)
ManagerCloseQueueLeftOpen ==
    /\ panicked = "no"
    /\ UNCHANGED orchVars
    /\ lastCall' = NoCall
    /\ closer = "closeQueue"
    /\ closer' = "stopTicker"
    /\ UNCHANGED <<l0Entries, l1Segments, itemsWithNeighbors, flushTrigger,
                   compactionTrigger, closeWorker, worker, setters, inserted, panicked>>
    /\ UNCHANGED <<isActivated, startOnce, setQueue, setQueueClosed, tickerStop,
                   activationThreshold, similarityThreshold, writer, ticker, nCloses,
                   accepted>>

\* adaptiveCacheManager.Close, second part: close(m.setQueue)
ManagerCloseQueue ==
    /\ panicked = "no"
    /\ UNCHANGED orchVars
    /\ lastCall' = NoCall
    /\ closer = "closeQueue"
    /\ setQueueClosed' = closeChannel(setQueueClosed).closed
    /\ IF closeChannel(setQueueClosed).panic
       THEN /\ panicked' = "close of closed channel"
            /\ UNCHANGED closer
       ELSE /\ UNCHANGED panicked
            /\ closer' = "stopTicker"
    /\ UNCHANGED <<l0Entries, l1Segments, itemsWithNeighbors, flushTrigger,
                   compactionTrigger, closeWorker, worker, setters, inserted>>
    /\ UNCHANGED <<isActivated, startOnce, setQueue, tickerStop, activationThreshold,
                   similarityThreshold, writer, ticker, nCloses, accepted>>

\* (variant of ManagerCloseTicker: closing also clears the activation flag)
ManagerCloseTickerDeactivating ==
    /\ panicked = "no"
    /\ UNCHANGED orchVars
    /\ lastCall' = NoCall
    /\ closer = "stopTicker"
    /\ tickerStop' = TRUE
    /\ closer' = "none"
    /\ isActivated' = FALSE
    /\ UNCHANGED <<coreVarsButCall, startOnce, setQueue, setQueueClosed,
                   activationThreshold, similarityThreshold, writer, ticker, nCloses,
                   accepted>>

\* adaptiveCacheManager.Close, last part: close tickerStop unless it is closed
ManagerCloseTicker ==
    /\ panicked = "no"
    /\ UNCHANGED orchVars
    /\ lastCall' = NoCall
    /\ closer = "stopTicker"
    /\ tickerStop' = TRUE
    /\ closer' = "none"
    /\ UNCHANGED <<coreVarsButCall, isActivated, startOnce, setQueue, setQueueClosed,
                   activationThreshold, similarityThreshold, writer, ticker, nCloses,
                   accepted>>

(* ------------------------------------------------------------------ *)
(* Segment, validateOptions, buildChunks and makeChunk (semseg.go).    *)
(* A sentence is named by its index in the sentence list, from 0;      *)
(* tokenCounts[i + 1] is the token count of sentence i and             *)
(* boundaryIndices is the set of gaps g (between sentences g and       *)
(* g + 1) that findBoundaries marked.  Chunk.Text, the sentences       *)
(* joined by a blank, is left out.                                     *)
(* ------------------------------------------------------------------ *)
MaxSentences == 4
MaxSentenceTokens == 3
MaxTokensLimit == 2

\* (variant of makeChunk: NumTokens is the number of sentences)
makeChunkCountingSentences(sentences, numTokens) ==
    [Sentences |-> sentences, NumTokens |-> Len(sentences)]

makeChunk(sentences, numTokens) == [Sentences |-> sentences, NumTokens |-> numTokens]

\* (variant of tokenLimitExceeded: the new sentence's tokens are not added)
tokenLimitExceededBefore(currentChunkTokens, sentenceTokens, maxTokens) ==
    currentChunkTokens > maxTokens

\* (variant of tokenLimitExceeded: a chunk is closed as soon as it would be full)
tokenLimitReached(currentChunkTokens, sentenceTokens, maxTokens) ==
    currentChunkTokens + sentenceTokens >= maxTokens

tokenLimitExceeded(currentChunkTokens, sentenceTokens, maxTokens) ==
    currentChunkTokens + sentenceTokens > maxTokens

\* the loop of buildChunks from sentence i on, and the flush after the loop
RECURSIVE buildChunksFrom(_, _, _, _, _, _, _)
buildChunksFrom(i, chunks, currentChunkSentences, currentChunkTokens, tokenCounts, boundaryIndices, maxTokens) ==
    IF i >= Len(tokenCounts)
    THEN IF Len(currentChunkSentences) > 0
         THEN Append(chunks, makeChunk(currentChunkSentences, currentChunkTokens))
         ELSE chunks
    ELSE LET sentenceTokens == tokenCounts[i + 1]
             isSemanticBoundary == i > 0 /\ (i - 1) \in boundaryIndices
             flushed == IF Len(currentChunkSentences) > 0
                        THEN Append(chunks,
                                    makeChunk(currentChunkSentences, currentChunkTokens))
                        ELSE chunks
         IN IF sentenceTokens > maxTokens
            THEN buildChunksFrom(i + 1,
                                 Append(flushed, makeChunk(<<i>>, sentenceTokens)),
                                 <<>>, 0, tokenCounts, boundaryIndices, maxTokens)
            ELSE IF /\ Len(currentChunkSentences) > 0
                    /\ \/ isSemanticBoundary
                       \/ tokenLimitExceeded(currentChunkTokens, sentenceTokens, maxTokens)
                 THEN buildChunksFrom(i + 1, flushed, <<i>>, sentenceTokens,
                                      tokenCounts, boundaryIndices, maxTokens)
                 ELSE buildChunksFrom(i + 1, chunks, Append(currentChunkSentences, i),
                                      currentChunkTokens + sentenceTokens,
                                      tokenCounts, boundaryIndices, maxTokens)

buildChunks(tokenCounts, boundaryIndices, maxTokens) ==
    buildChunksFrom(0, <<>>, <<>>, 0, tokenCounts, boundaryIndices, maxTokens)

CacheModeDisable == "disable"
CacheModeForce == "force"
CacheModeAdaptive == "adaptive"

\* what Options.EmbeddingCache can hold: nil, an InMemoryCache (an
\* EmbeddingCache only), or an adaptiveCacheManager
NilCache == "nil"
PlainCache == "InMemoryCache"
ManagerCache == "AdaptiveCacheManager"

\* (variant of validateOptions: the check of EmbeddingCache is left out)
validateOptionsMaxTokensOnly(opts) == opts.MaxTokens <= 0

\* validateOptions: TRUE when it returns an error
validateOptions(opts) ==
    \/ opts.MaxTokens <= 0
    \/ /\ opts.EmbeddingCacheMode # CacheModeDisable
       /\ opts.EmbeddingCacheMode # ""
       /\ opts.EmbeddingCache = NilCache

\* setDefaultOptions, the cache mode: an empty mode is "disable"
setDefaultOptions(opts) ==
    [opts EXCEPT !.EmbeddingCacheMode = IF @ = "" THEN CacheModeDisable ELSE @]

\* calls of Segment: options, whether CHUNKER_OLLAMA_URL and CHUNKER_OLLAMA_MODEL
\* are set, the token counts and the cache keys of the sentences the text
\* splits into, and the gaps findBoundaries marks for them
segmentCalls(maxTokens, modes, caches, Ts, ollama, lens, tokens, keys) ==
    UNION {[pc : {"called"},
            opts : [MaxTokens : maxTokens,
                    EmbeddingCacheMode : modes,
                    EmbeddingCache : caches,
                    CacheSimilarityThreshold : Ts,
                    AdaptiveCacheActivationThreshold : {1}],
            ollama : ollama,
            tokenCounts : [1..n -> tokens],
            keyVectors : [1..n -> keys],
            boundaryIndices : SUBSET (0..(n - 2))] : n \in lens}

\* the calls of Segment without cache and without provider
SegmentCalls ==
    segmentCalls(-1..MaxTokensLimit, {CacheModeDisable}, {NilCache}, {<<1, 1>>}, {FALSE}, 0..MaxSentences, 0..MaxSentenceTokens, {KA})

\* batches made so far, the one under way included
nBatches == IF batch.pc = "none" THEN 0 ELSE batch.n

\* the populate goroutines started by earlier batches
populating == IF batch.pc = "none" THEN <<>> ELSE batch.populate

\* the locals of a fresh call of getOllamaEmbeddings
newBatch(call) ==
    [pc |-> "called", n |-> nBatches + 1,
     opts |-> call.opts, keyVectors |-> call.keyVectors,
     vectors |-> [i \in 1..Len(call.keyVectors) |-> 0],
     i |-> 0, jobsToRun |-> <<>>, jobs |-> {}, resultsChan |-> <<>>,
     results |-> <<>>, err |-> FALSE, activated |-> FALSE,
     strategy |-> "none", finds |-> <<>>, provided |-> <<>>,
     insertedAtCall |-> inserted, populate |-> populating,
     populatingAtCall |-> Len(populating)]

\* what Segment returns
segmentReturns(err, chunks) ==
    [pc |-> "returned", opts |-> chunker.opts, tokenCounts |-> chunker.tokenCounts,
     boundaryIndices |-> chunker.boundaryIndices, err |-> err, chunks |-> chunks]

\* Segment from its call to its return or, on PATH A with two sentences or
\* more, to the call of getOllamaEmbeddings in segmentWithOllama
Segment ==
    /\ chunker.pc = "called"
    /\ IF validateOptions(chunker.opts)
       THEN chunker' = segmentReturns(TRUE, <<>>) /\ UNCHANGED batch
       ELSE IF Len(chunker.tokenCounts) = 0
       THEN chunker' = segmentReturns(FALSE, <<>>) /\ UNCHANGED batch
       ELSE IF Len(chunker.tokenCounts) = 1
       THEN /\ chunker' = segmentReturns(FALSE, <<makeChunk(<<0>>, chunker.tokenCounts[1])>>)
            /\ UNCHANGED batch
       ELSE IF chunker.ollama
       THEN /\ chunker' = [chunker EXCEPT !.pc = "segmentWithOllama"]
            /\ batch' = newBatch([opts |-> setDefaultOptions(chunker.opts),
                                  keyVectors |-> chunker.keyVectors])
       ELSE /\ chunker' = segmentReturns(FALSE, buildChunks(chunker.tokenCounts, chunker.boundaryIndices, chunker.opts.MaxTokens))
            /\ UNCHANGED batch
    /\ UNCHANGED <<coreVars, mgrVars>>

\* Segment after segmentWithOllama: an error of the embedding path is handed
\* on, else the chunks are built
segmentWithOllamaReturn ==
    /\ chunker.pc = "segmentWithOllama"
    /\ batch.pc = "returned"
    /\ chunker' = IF batch.err
                  THEN segmentReturns(TRUE, <<>>)
                  ELSE segmentReturns(FALSE, buildChunks(chunker.tokenCounts, chunker.boundaryIndices, chunker.opts.MaxTokens))
    /\ UNCHANGED <<coreVars, mgrVars, batch>>

(* ------------------------------------------------------------------ *)
(* setDefaultOptions and findBoundaries (semseg.go).  Scores,          *)
(* MinSplitSimilarity and DepthThreshold are counted in hundredths;    *)
(* scores[g + 1] is the similarity across gap g.  The scores are drawn *)
(* from values whose dips are never exactly as deep as a threshold, so *)
(* that the rounding of the float64 arithmetic decides no comparison.  *)
(* ------------------------------------------------------------------ *)
MaxScores == 4
Scores == {20, 45, 50, 80}

\* setDefaultOptions, the depth threshold: 0.1 replaces a negative value
setDefaultDepthThreshold(opts) ==
    [opts EXCEPT !.DepthThreshold =
        IF opts.MinSplitSimilarity = 0 /\ @ < 0 THEN 10 ELSE @]

\* twice the depth of the dip at gap i
twiceDepth(scores, i) == (scores[i] + scores[i + 2]) - 2 * scores[i + 1]

findBoundaries(scores, opts) ==
    {i \in 0..(Len(scores) - 1) :
        IF opts.MinSplitSimilarity > 0
        THEN scores[i + 1] < opts.MinSplitSimilarity
        ELSE /\ i > 0
             /\ i < Len(scores) - 1
             /\ scores[i + 1] < scores[i]
             /\ scores[i + 1] < scores[i + 2]
             /\ twiceDepth(scores, i) >= 2 * opts.DepthThreshold}

\* calls of Segment that have reached step 5 with their cohesion scores
ScoredCalls ==
    UNION {[pc : {"scored"},
            opts : [MinSplitSimilarity : {0, 50}, DepthThreshold : {-100, 0, 10, 30}],
            scores : [1..n -> Scores]] : n \in 0..MaxScores}

\* Segment: the options after setDefaultOptions (left in effective) and the
\* boundaries findBoundaries marks with them
SegmentBoundaries ==
    /\ chunker.pc = "scored"
    /\ chunker' = [pc |-> "bounded", opts |-> chunker.opts, scores |-> chunker.scores,
                   effective |-> setDefaultDepthThreshold(chunker.opts),
                   boundaryIndices |->
                     findBoundaries(chunker.scores, setDefaultDepthThreshold(chunker.opts))]
    /\ UNCHANGED <<coreVars, mgrVars, batch>>

(* ------------------------------------------------------------------ *)
(* getOllamaEmbeddings and its three strategies (semseg.go).           *)
(* A sentence is named by its index in the batch, from 0;              *)
(* keyVectors[i + 1] is the cache key of sentence i.  The variable     *)
(* batch holds the locals of the call under way, the calls it made to  *)
(* the provider (provided), the answers Find gave it (finds), and the  *)
(* background goroutines that queue embeddings (populate); an          *)
(* embedding of 0 is nil.                                              *)
(* ------------------------------------------------------------------ *)
\* the numbers of sentences of a batch
BatchLens == {1, 2}


\* what the provider can answer for sentence i: the sentence's embedding in a
\* fresh array, or an error
providerAnswers(i) ==
    {[index |-> i, embedding |-> newArray(i + 1), err |-> FALSE],
     [index |-> i, embedding |-> 0, err |-> TRUE]}

\* batches of sentences with keys in keys
batchCalls(modes, caches, keys, Ts, actTs) ==
    UNION {[opts : [EmbeddingCacheMode : modes,
                    EmbeddingCache : caches,
                    CacheSimilarityThreshold : Ts,
                    AdaptiveCacheActivationThreshold : actTs],
            keyVectors : [1..n -> keys]] : n \in BatchLens}

\* getOllamaEmbeddings is called: the locals of a fresh call
getOllamaEmbeddingsCall(call, maxBatches) ==
    /\ panicked = "no"
    /\ batch.pc \in {"none", "returned"}
    /\ nBatches < maxBatches
    /\ batch' = newBatch(call)
    /\ lastCall' = NoCall
    /\ UNCHANGED <<coreVarsButCall, mgrVars, chunker>>

\* the jobs of getOllamaEmbeddingsDirect: one for every sentence
allJobs(keyVectors) == [j \in 1..Len(keyVectors) |-> j - 1]

\* getOllamaEmbeddings: the switch on EmbeddingCacheMode
getOllamaEmbeddings ==
    /\ panicked = "no"
    /\ batch.pc = "called"
    /\ batch' =
         IF batch.opts.EmbeddingCacheMode = CacheModeForce
         THEN [batch EXCEPT !.pc = "withCacheFind", !.strategy = "withCache"]
         ELSE IF batch.opts.EmbeddingCacheMode = CacheModeAdaptive
              THEN [batch EXCEPT !.pc = "adaptiveStart"]
              ELSE [batch EXCEPT !.pc = "workers", !.strategy = "direct",
                                 !.jobs = SeqRangeOf(allJobs(batch.keyVectors))]
    /\ lastCall' = NoCall
    /\ UNCHANGED <<coreVarsButCall, mgrVars, chunker>>

\* (variant of jobsAfterFind: a job is queued for every sentence, hit or miss)
jobsAfterFindAlways(jobsToRun, i, found) == Append(jobsToRun, i)

\* getOllamaEmbeddingsWithCache, step 2: a sentence without a hit becomes a job
jobsAfterFind(jobsToRun, i, found) == IF found THEN jobsToRun ELSE Append(jobsToRun, i)

\* getOllamaEmbeddingsWithCache, step 2, one turn of the loop: Find for sentence i
getOllamaEmbeddingsWithCacheFind ==
    /\ batch.pc = "withCacheFind"
    /\ batch.i < Len(batch.keyVectors)
    /\ Find(batch.keyVectors[batch.i + 1], batch.opts.CacheSimilarityThreshold)
    /\ batch' = [batch EXCEPT
                   !.i = @ + 1,
                   !.vectors[batch.i + 1] =
                      IF lastCall'.found THEN lastCall'.embedding ELSE @,
                   !.jobsToRun = jobsAfterFind(@, batch.i, lastCall'.found),
                   !.finds = Append(@, [index |-> batch.i, key |-> lastCall'.key,
                                        threshold |-> lastCall'.threshold,
                                        found |-> lastCall'.found,
                                        embedding |-> lastCall'.embedding])]
    /\ UNCHANGED chunker

\* getOllamaEmbeddingsWithCache after the loop: return when nothing missed,
\* else hand the misses to runOllamaWorkers
getOllamaEmbeddingsWithCacheRun ==
    /\ panicked = "no"
    /\ batch.pc = "withCacheFind"
    /\ batch.i = Len(batch.keyVectors)
    /\ batch' = IF Len(batch.jobsToRun) = 0
                THEN [batch EXCEPT !.pc = "returned"]
                ELSE [batch EXCEPT !.pc = "workers",
                                   !.jobs = SeqRangeOf(batch.jobsToRun)]
    /\ lastCall' = NoCall
    /\ UNCHANGED <<coreVarsButCall, mgrVars, chunker>>

\* ollamaWorker, one job: the provider is called for the job's sentence and
\* the answer is put on the result channel.  The workers run side by side: the
\* answers arrive in any order.
ollamaWorker ==
    /\ panicked = "no"
    /\ batch.pc = "workers"
    /\ \E job \in batch.jobs : \E answer \in providerAnswers(job) :
         batch' = [batch EXCEPT
                     !.jobs = @ \ {job},
                     !.provided = Append(@, job),
                     !.resultsChan = Append(@, answer)]
    /\ lastCall' = NoCall
    /\ UNCHANGED <<coreVarsButCall, mgrVars, chunker>>

\* the embeddings of the results put at their sentences' positions
RECURSIVE placed(_, _)
placed(vectors, results) ==
    IF results = <<>> THEN vectors
    ELSE placed([vectors EXCEPT ![results[1].index + 1] = results[1].embedding],
                Tail(results))

\* the pairs the populate goroutine of getOllamaEmbeddingsAdaptive walks through
pairsOf(keyVectors, vectors) ==
    [j \in 1..Len(keyVectors) |-> [key |-> keyVectors[j], embedding |-> vectors[j]]]

\* (variant of populateStarted: only the first sentence's pair is queued)
populateStartedFirstOnly(populate, keyVectors, vectors) ==
    Append(populate, [pairs |-> SubSeq(pairsOf(keyVectors, vectors), 1, 1), next |-> 1])

\* getOllamaEmbeddingsAdaptive, "go func()": one more populate goroutine
populateStarted(populate, keyVectors, vectors) ==
    Append(populate, [pairs |-> pairsOf(keyVectors, vectors), next |-> 1])

\* (variant of runOllamaWorkersReturn: a failed result does not end the batch,
\* the results of the calls that succeeded are handed on with the error kept)
runOllamaWorkersReturnKeepingSuccesses ==
    /\ panicked = "no"
    /\ batch.pc = "workers"
    /\ batch.jobs = {}
    /\ batch' =
         IF batch.strategy = "withCache"
         THEN [batch EXCEPT
                 !.pc = "withCacheSet",
                 !.err = \E r \in 1..Len(batch.resultsChan) : batch.resultsChan[r].err,
                 !.results = SelectSeq(batch.resultsChan, LAMBDA r : ~r.err)]
         ELSE [batch EXCEPT !.pc = "returned",
                            !.vectors = placed(@, batch.resultsChan)]
    /\ lastCall' = NoCall
    /\ UNCHANGED <<coreVarsButCall, mgrVars, chunker>>

\* runOllamaWorkers after wg.Wait: the first failed result ends the batch with
\* an error (fail fast); else the caller goes on with the results:
\* getOllamaEmbeddingsWithCache to its step 4, getOllamaEmbeddingsDirect and
\* getOllamaEmbeddingsAdaptive to their return.
runOllamaWorkersReturn ==
    /\ panicked = "no"
    /\ batch.pc = "workers"
    /\ batch.jobs = {}
    /\ batch' =
         IF \E r \in 1..Len(batch.resultsChan) : batch.resultsChan[r].err
         THEN [batch EXCEPT !.pc = "returned", !.err = TRUE,
                            !.vectors = [i \in 1..Len(batch.keyVectors) |-> 0]]
         ELSE IF batch.strategy = "withCache"
              THEN [batch EXCEPT !.pc = "withCacheSet", !.results = batch.resultsChan]
              ELSE IF batch.strategy = "direct"
                   THEN [batch EXCEPT !.pc = "returned",
                                      !.vectors = placed(@, batch.resultsChan)]
                   ELSE [batch EXCEPT
                           !.pc = "returned",
                           !.vectors = placed(@, batch.resultsChan),
                           !.populate =
                              populateStarted(@, batch.keyVectors,
                                              placed(batch.vectors, batch.resultsChan))]
    /\ lastCall' = NoCall
    /\ UNCHANGED <<coreVarsButCall, mgrVars, chunker>>

\* ---- the worker pool of runOllamaWorkers, goroutine by goroutine ----

MaxPoolJobs == 2
MaxWorkersEnv == 1
DefaultOllamaWorkers == 4

\* runOllamaWorkers: the number of workers, from the environment variable's
\* value (0 stands for unset or not a positive number) and the number of jobs
numWorkersOf(env, numJobs) ==
    LET n == IF env <= 0 THEN DefaultOllamaWorkers ELSE env
    IN  IF n > numJobs THEN numJobs ELSE n

\* make(chan ollamaJob, numJobs)
jobsCap(numJobs) == numJobs

\* (variant of resultsChanCap: room for one result)
resultsChanCapOne(numJobs) == 1

\* make(chan ollamaResult, numJobs)
resultsChanCap(numJobs) == numJobs

\* getOllamaEmbeddingsDirect is called with n sentences: jobsToRun has a job
\* for every sentence; env is the value of CHUNKER_OLLAMA_MAX_WORKERS
getOllamaEmbeddingsDirectCall(n, env) ==
    /\ panicked = "no"
    /\ batch.pc \in {"none", "returned"}
    /\ batch' = [pc |-> "runOllamaWorkers", strategy |-> "pool",
                 jobsToRun |-> [j \in 1..n |-> j - 1], env |-> env,
                 numJobs |-> n, numWorkers |-> 0, next |-> 1,
                 jobs |-> <<>>, jobsCap |-> 0, jobsClosed |-> FALSE,
                 resultsChan |-> <<>>, resultsCap |-> 0,
                 workers |-> <<>>, wg |-> 0, taken |-> <<>>,
                 vectors |-> [i \in 1..n |-> 0], err |-> FALSE]
    /\ lastCall' = NoCall
    /\ UNCHANGED <<coreVarsButCall, mgrVars, chunker>>

\* runOllamaWorkers up to the start of the workers: no job, no pool; else the
\* two channels are made and numWorkers goroutines are started
runOllamaWorkersStart ==
    /\ panicked = "no"
    /\ batch.pc = "runOllamaWorkers"
    /\ batch' =
         IF batch.numJobs = 0
         THEN [batch EXCEPT !.pc = "returned"]
         ELSE LET numWorkers == numWorkersOf(batch.env, batch.numJobs)
              IN  [batch EXCEPT
                     !.pc = "send",
                     !.numWorkers = numWorkers,
                     !.jobsCap = jobsCap(batch.numJobs),
                     !.resultsCap = resultsChanCap(batch.numJobs),
                     !.workers = [w \in 1..numWorkers |-> [pc |-> "range"]],
                     !.wg = numWorkers]
    /\ lastCall' = NoCall
    /\ UNCHANGED <<coreVarsButCall, mgrVars, chunker>>

\* runOllamaWorkers, "jobs <- job": waits while the channel is full
runOllamaWorkersSendJob ==
    /\ panicked = "no"
    /\ batch.pc = "send"
    /\ batch.next <= batch.numJobs
    /\ Len(batch.jobs) < batch.jobsCap
    /\ batch' = [batch EXCEPT !.jobs = Append(@, batch.jobsToRun[batch.next]),
                              !.next = @ + 1]
    /\ lastCall' = NoCall
    /\ UNCHANGED <<coreVarsButCall, mgrVars, chunker>>

\* runOllamaWorkers, close(jobs) after the last job
runOllamaWorkersCloseJobs ==
    /\ panicked = "no"
    /\ batch.pc = "send"
    /\ batch.next > batch.numJobs
    /\ batch' = [batch EXCEPT !.jobsClosed = TRUE, !.pc = "wait"]
    /\ lastCall' = NoCall
    /\ UNCHANGED <<coreVarsButCall, mgrVars, chunker>>

\* ollamaWorker w, "for job := range jobs": takes the oldest job of the
\* channel, or ends (wg.Done) when the channel is closed and empty
ollamaWorkerRange(w) ==
    /\ panicked = "no"
    /\ batch.pc \in {"send", "wait"}
    /\ batch.workers[w].pc = "range"
    /\ \/ /\ batch.jobs # <<>>
          /\ batch' = [batch EXCEPT
                         !.jobs = Tail(@),
                         !.workers[w] = [pc |-> "call", job |-> batch.jobs[1]],
                         !.taken = Append(@, [worker |-> w, job |-> batch.jobs[1]])]
       \/ /\ batch.jobs = <<>>
          /\ batch.jobsClosed
          /\ batch' = [batch EXCEPT !.workers[w] = [pc |-> "done"], !.wg = @ - 1]
    /\ lastCall' = NoCall
    /\ UNCHANGED <<coreVarsButCall, mgrVars, chunker>>

\* ollamaWorker w, the body of the loop up to the send: the request is built
\* and sent, the answer read; every way out makes one result for the job
ollamaWorkerCall(w) ==
    /\ panicked = "no"
    /\ batch.pc \in {"send", "wait"}
    /\ batch.workers[w].pc = "call"
    /\ \E answer \in providerAnswers(batch.workers[w].job) :
         batch' = [batch EXCEPT !.workers[w] = [pc |-> "result", result |-> answer]]
    /\ lastCall' = NoCall
    /\ UNCHANGED <<coreVarsButCall, mgrVars, chunker>>

\* ollamaWorker w, "results <- ollamaResult{...}": waits while the channel is
\* full
ollamaWorkerSend(w) ==
    /\ panicked = "no"
    /\ batch.pc \in {"send", "wait"}
    /\ batch.workers[w].pc = "result"
    /\ Len(batch.resultsChan) < batch.resultsCap
    /\ batch' = [batch EXCEPT !.resultsChan = Append(@, batch.workers[w].result),
                              !.workers[w] = [pc |-> "range"]]
    /\ lastCall' = NoCall
    /\ UNCHANGED <<coreVarsButCall, mgrVars, chunker>>

\* runOllamaWorkers from wg.Wait on, and getOllamaEmbeddingsDirect after it:
\* when every worker is done the result channel is closed and read; the first
\* failed result is returned as the error, else the embeddings are placed
runOllamaWorkersWait ==
    /\ panicked = "no"
    /\ batch.pc = "wait"
    /\ batch.wg = 0
    /\ batch' =
         IF \E r \in 1..Len(batch.resultsChan) : batch.resultsChan[r].err
         THEN [batch EXCEPT !.pc = "returned", !.err = TRUE]
         ELSE [batch EXCEPT !.pc = "returned",
                            !.vectors = placed(@, batch.resultsChan)]
    /\ lastCall' = NoCall
    /\ UNCHANGED <<coreVarsButCall, mgrVars, chunker>>

\* the steps of a running pool
poolStep ==
    \/ runOllamaWorkersStart
    \/ runOllamaWorkersSendJob
    \/ runOllamaWorkersCloseJobs
    \/ \E w \in 1..MaxPoolJobs :
          /\ batch.pc \in {"send", "wait"}
          /\ w <= batch.numWorkers
          /\ \/ ollamaWorkerRange(w)
             \/ ollamaWorkerCall(w)
             \/ ollamaWorkerSend(w)
    \/ runOllamaWorkersWait

NextPool ==
    \/ \E n \in 0..MaxPoolJobs : \E env \in 0..MaxWorkersEnv :
          getOllamaEmbeddingsDirectCall(n, env)
    \/ runOllamaWorkersStart
    \/ runOllamaWorkersSendJob
    \/ runOllamaWorkersCloseJobs
    \/ \E w \in 1..MaxPoolJobs :
          /\ batch.pc \in {"send", "wait"}
          /\ w <= batch.numWorkers
          /\ ollamaWorkerRange(w)
    \/ \E w \in 1..MaxPoolJobs :
          /\ batch.pc \in {"send", "wait"}
          /\ w <= batch.numWorkers
          /\ ollamaWorkerCall(w)
    \/ \E w \in 1..MaxPoolJobs :
          /\ batch.pc \in {"send", "wait"}
          /\ w <= batch.numWorkers
          /\ ollamaWorkerSend(w)
    \/ runOllamaWorkersWait

\* the goroutines of the pool are scheduled: a step that stays possible is taken
SpecPoolFair ==
    /\ Init
    /\ [][NextPool]_vars
    /\ WF_vars(runOllamaWorkersStart)
    /\ WF_vars(runOllamaWorkersSendJob)
    /\ WF_vars(runOllamaWorkersCloseJobs)
    /\ \A w \in 1..MaxPoolJobs :
          /\ WF_vars(batch.pc \in {"send", "wait"} /\ w <= batch.numWorkers
                        /\ ollamaWorkerRange(w))
          /\ WF_vars(batch.pc \in {"send", "wait"} /\ w <= batch.numWorkers
                        /\ ollamaWorkerCall(w))
          /\ WF_vars(batch.pc \in {"send", "wait"} /\ w <= batch.numWorkers
                        /\ ollamaWorkerSend(w))
    /\ WF_vars(runOllamaWorkersWait)

\* getOllamaEmbeddingsWithCache, step 4, one turn of the loop: the result is put
\* at its sentence's position and stored with Set (up to Set's Unlock)
getOllamaEmbeddingsWithCacheSet ==
    /\ batch.pc = "withCacheSet"
    /\ batch.results # <<>>
    /\ setters = 0
    /\ Set(batch.keyVectors[batch.results[1].index + 1], batch.results[1].embedding,
           batch.opts.CacheSimilarityThreshold)
    /\ batch' = [batch EXCEPT
                   !.vectors[batch.results[1].index + 1] = batch.results[1].embedding,
                   !.results = Tail(@)]
    /\ UNCHANGED chunker

\* getOllamaEmbeddingsWithCache returns the vectors
getOllamaEmbeddingsWithCacheReturn ==
    /\ panicked = "no"
    /\ batch.pc = "withCacheSet"
    /\ batch.results = <<>>
    /\ setters = 0
    /\ batch' = [batch EXCEPT !.pc = "returned"]
    /\ lastCall' = NoCall
    /\ UNCHANGED <<coreVarsButCall, mgrVars, chunker>>

\* getOllamaEmbeddingsAdaptive: the cache is an AdaptiveCacheManager,
\* manager.Start is called with the options' thresholds
getOllamaEmbeddingsAdaptiveStart ==
    /\ batch.pc = "adaptiveStart"
    /\ batch.opts.EmbeddingCache = ManagerCache
    /\ Start(batch.opts.CacheSimilarityThreshold,
             batch.opts.AdaptiveCacheActivationThreshold)
    /\ batch' = [batch EXCEPT !.pc = "adaptiveCheck"]
    /\ UNCHANGED chunker

\* getOllamaEmbeddingsAdaptive: the type assertion fails, an error is returned
getOllamaEmbeddingsAdaptiveNoManager ==
    /\ panicked = "no"
    /\ batch.pc = "adaptiveStart"
    /\ batch.opts.EmbeddingCache # ManagerCache
    /\ batch' = [batch EXCEPT !.pc = "returned", !.err = TRUE]
    /\ lastCall' = NoCall
    /\ UNCHANGED <<coreVarsButCall, mgrVars, chunker>>

\* getOllamaEmbeddingsAdaptive: "if manager.IsActivated()" chooses between the
\* strategy of force mode and the direct one
getOllamaEmbeddingsAdaptiveCheck ==
    /\ panicked = "no"
    /\ batch.pc = "adaptiveCheck"
    /\ batch' =
         IF IsActivated
         THEN [batch EXCEPT !.pc = "withCacheFind", !.strategy = "withCache",
                            !.activated = TRUE]
         ELSE [batch EXCEPT !.pc = "workers", !.strategy = "adaptive",
                            !.jobs = SeqRangeOf(allJobs(batch.keyVectors))]
    /\ lastCall' = NoCall
    /\ UNCHANGED <<coreVarsButCall, mgrVars, chunker>>

\* a populate goroutine hands its next pair to QueueSet
populateQueueSet ==
    /\ batch.pc # "none"
    /\ \E g \in 1..Len(batch.populate) :
         LET goroutine == batch.populate[g]
         IN /\ goroutine.next <= Len(goroutine.pairs)
            /\ QueueSet(goroutine.pairs[goroutine.next].key,
                        goroutine.pairs[goroutine.next].embedding)
            /\ batch' = [batch EXCEPT !.populate[g].next = @ + 1]
    /\ UNCHANGED chunker

(* ------------------------------------------------------------------ *)
(* The tiered cache core on its own, called directly.                  *)
(* ------------------------------------------------------------------ *)
\* Calls of Set, Find and Close and the flush arm of the worker, with the
\* inputs of Set drawn from setKeys, setEmbs, setTs, those of Find from
\* findKeys, findTs, and at most maxSets calls of Set.
coreStep(setKeys, setEmbs, setTs, findKeys, findTs, maxSets) ==
    \/ \E key \in setKeys, embedding \in setEmbs, T \in setTs :
          /\ BagCardinality(inserted) < maxSets
          /\ Set(key, embedding, T)
          /\ UNCHANGED orchVars
    \/ SetSignal
    \/ \E key \in findKeys, T \in findTs : Find(key, T) /\ UNCHANGED orchVars
    \/ Close
    \/ backgroundWorkerFlush
    \/ backgroundWorkerClose
    \/ flushL0Swap
    \/ flushL0Append
    \/ flushL0Signal

\* the compaction arm of the worker
compactionStep ==
    \/ backgroundWorkerCompact
    \/ compactL1Take
    \/ compactL1Replace

\* Lookups over keys of one and two terms.  With MaxSets entries the segment
\* list stays at or below the compaction trigger: no compaction signal is sent.
MaxSets == 3

Next == coreStep(Keys, Embs, Thresholds, QueryKeys, Thresholds, MaxSets)

Spec == Init /\ [][Next]_vars

\* Entries of distinct keys, looked up by their own keys at threshold 1.0.
MaxSetsDistinct == 3

NextDistinct ==
    coreStep(DistinctKeys, {1}, {<<1, 2>>}, DistinctKeys, {<<1, 1>>}, MaxSetsDistinct)

SpecDistinct == Init /\ [][NextDistinct]_vars

\* Set with slices the caller keeps and overwrites afterwards, and Find with
\* results the caller overwrites.
MaxSetsAliasing == 4

NextAliasing ==
    \/ coreStep({KA, K43}, {callerArray(1), callerArray(2)}, {<<1, 2>>},
                {KA, K43}, {<<1, 1>>}, MaxSetsAliasing)
    \/ \E w \in {3} : CallerWritesEmbedding(w)

SpecAliasing == Init /\ [][NextAliasing]_vars

\* Set with key maps the caller keeps and changes afterwards.
MaxSetsKeyAliasing == 3

NextKeyAliasing ==
    \/ coreStep({KA, K43}, {1}, {<<1, 2>>}, {KA, K43, K34}, {<<1, 1>>}, MaxSetsKeyAliasing)
    \/ \E old \in {K43}, new \in {K34} : CallerWritesKey(old, new)

SpecKeyAliasing == Init /\ [][NextKeyAliasing]_vars

\* The neighbor scan of Set before and after a flush.
MaxSetsNeighbors == 4

NextNeighbors ==
    coreStep({KA, KAB}, {1}, Thresholds, {KA}, {<<1, 1>>}, MaxSetsNeighbors)

SpecNeighbors == Init /\ [][NextNeighbors]_vars

\* Enough Set calls for compaction, all of the key {a:3, b:3}.
MaxSetsCompaction == 7

NextCompaction ==
    \/ coreStep({K33}, {1}, {<<1, 1>>}, {K33}, {<<1, 1>>}, MaxSetsCompaction)
    \/ compactionStep

SpecCompaction == Init /\ [][NextCompaction]_vars

(* ------------------------------------------------------------------ *)
(* The cache core with its goroutines running.                         *)
(* ------------------------------------------------------------------ *)
\* Set calls of one key; the n-th call passes the embedding <<n>> (<<n - 9>>
\* from the tenth call on), so that the entries can be told from each other.
nextEmbedding == (BagCardinality(inserted) % 9) + 1

\* at most maxSets calls of Set, and the steps of Close and of the worker
coreRun(maxSets) ==
    \/ /\ BagCardinality(inserted) < maxSets
       /\ Set(KA, nextEmbedding, <<1, 1>>)
       /\ UNCHANGED orchVars
    \/ SetSignal
    \/ Close
    \/ backgroundWorkerFlush
    \/ backgroundWorkerClose
    \/ flushL0Swap
    \/ flushL0Append
    \/ flushL0Signal
    \/ compactionStep

MaxSetsFlush == 8

NextFlush == coreRun(MaxSetsFlush)

\* A Set that has unlocked goes on to its select, and the worker goroutine
\* keeps running: it finishes the flush or compaction it is in, and a signal
\* waiting in a slot is taken by its select sooner or later.
SpecFlushFair ==
    /\ Init
    /\ [][NextFlush]_vars
    /\ WF_vars(SetSignal)
    /\ WF_vars(backgroundWorkerFlush)
    /\ WF_vars(backgroundWorkerCompact)
    /\ WF_vars(flushL0Swap)
    /\ WF_vars(flushL0Append)
    /\ WF_vars(flushL0Signal)
    /\ WF_vars(compactL1Take)
    /\ WF_vars(compactL1Replace)

\* Enough Set calls for four segments to be listed when a compaction runs.
MaxSetsSplice == 10

NextSplice == coreRun(MaxSetsSplice)

SpecSplice == Init /\ [][NextSplice]_vars

\* Lookups while entries of two keys, each with an embedding of its own, move
\* from L0 into segments and through a compaction.  The calls of Set take the
\* keys {a:1} and {a:4,b:3} in turn.
MaxSetsProbe == 8

nextKey == IF BagCardinality(inserted) % 2 = 0 THEN KA ELSE K43

NextProbe ==
    \/ /\ BagCardinality(inserted) < MaxSetsProbe
       /\ Set(nextKey, nextEmbedding, <<1, 1>>)
       /\ UNCHANGED orchVars
    \/ SetSignal
    \/ \E key \in QueryKeys, T \in Thresholds : Find(key, T) /\ UNCHANGED orchVars
    \/ backgroundWorkerFlush
    \/ flushL0Swap
    \/ flushL0Append
    \/ flushL0Signal
    \/ compactionStep

SpecProbe == Init /\ [][NextProbe]_vars

(* ------------------------------------------------------------------ *)
(* The adaptive manager over a fresh cache.                            *)
(* ------------------------------------------------------------------ *)
\* entries inserted in one run, through QueueSet or Set
MaxSetsAdaptive == 4

\* the entry offered to QueueSet while the queue is full
FloodEntry == [key |-> K43, embedding |-> 2]

\* entries on their way into the cache: queued, or in the writer's hands
inFlight == Len(setQueue) + (IF writer.pc = "Set" THEN 1 ELSE 0)

NextAdaptive ==
    \/ \E actThreshold \in {2, 3} :
          Start(StartThreshold, actThreshold) /\ UNCHANGED orchVars
    \/ \E key \in {KA, K43}, embedding \in {1} :
          /\ BagCardinality(inserted) + inFlight < MaxSetsAdaptive
          /\ QueueSet(key, embedding)
          /\ UNCHANGED orchVars
    \/ /\ Len(setQueue) >= setQueueCap
       /\ QueueSet(FloodEntry.key, FloodEntry.embedding)
       /\ UNCHANGED orchVars
    \/ \E key \in {KA}, embedding \in {1}, T \in {StartThreshold} :
          /\ BagCardinality(inserted) + inFlight < MaxSetsAdaptive
          /\ ManagerSet(key, embedding, T)
          /\ UNCHANGED orchVars
    \/ SetSignal
    \/ \E key \in {KA}, T \in {StartThreshold} : ManagerFind(key, T) /\ UNCHANGED orchVars
    \/ asyncWriterRange
    \/ asyncWriterSet
    \/ asyncWriterSignal
    \/ activationTickerTick
    \/ activationTickerStop
    \/ ManagerCloseCache
    \/ ManagerCloseQueue
    \/ ManagerCloseTicker
    \/ backgroundWorkerFlush
    \/ backgroundWorkerClose
    \/ flushL0Swap
    \/ flushL0Append
    \/ flushL0Signal

SpecAdaptive == Init /\ [][NextAdaptive]_vars

\* The goroutines of the manager keep running: the writer takes every step it
\* can take, and the 5-second ticker keeps firing while activationTicker runs.
SpecAdaptiveFair ==
    /\ SpecAdaptive
    /\ WF_vars(asyncWriterRange)
    /\ WF_vars(asyncWriterSet)
    /\ WF_vars(asyncWriterSignal)
    /\ WF_vars(activationTickerTick)

(* ------------------------------------------------------------------ *)
(* The write queue of the manager: every entry goes through QueueSet.  *)
(* ------------------------------------------------------------------ *)
\* entries accepted by QueueSet in one run; the n-th accepted entry has the
\* embedding <<n>>
MaxQueued == 5

nextQueued == (accepted % 9) + 1

NextQueue ==
    \/ \E simThreshold \in {StartThreshold, <<1, 2>>} :
          Start(simThreshold, 2) /\ UNCHANGED orchVars
    \/ /\ accepted < MaxQueued
       /\ QueueSet(KA, nextQueued)
       /\ UNCHANGED orchVars
    \/ asyncWriterRange
    \/ asyncWriterSet
    \/ asyncWriterSignal
    \/ activationTickerTick
    \/ activationTickerStop
    \/ ManagerCloseCache
    \/ ManagerCloseQueue
    \/ ManagerCloseTicker
    \/ backgroundWorkerFlush
    \/ backgroundWorkerClose
    \/ flushL0Swap
    \/ flushL0Append
    \/ flushL0Signal

\* the writer goroutine keeps running while the process lives
SpecQueueFair ==
    /\ Init
    /\ [][NextQueue]_vars
    /\ WF_vars(asyncWriterRange)
    /\ WF_vars(asyncWriterSet)
    /\ WF_vars(asyncWriterSignal)

\* The caller keeps the slices it passes to QueueSet and writes 9 into them.
MaxQueuedAliasing == 3

NextQueueAliasing ==
    \/ Start(StartThreshold, 2) /\ UNCHANGED orchVars
    \/ /\ accepted < MaxQueuedAliasing
       /\ QueueSet(KA, callerArray(nextQueued))
       /\ UNCHANGED orchVars
    \/ \E w \in {9} : CallerWritesQueued(w)
    \/ asyncWriterRange
    \/ asyncWriterSet
    \/ asyncWriterSignal
    \/ backgroundWorkerFlush
    \/ flushL0Swap
    \/ flushL0Append
    \/ flushL0Signal

SpecQueueAliasing == Init /\ [][NextQueueAliasing]_vars

\* Enough accepted entries for a compaction signal to be pending at Close.
MaxQueuedShutdown == 8

NextShutdown ==
    \/ Start(StartThreshold, 2) /\ UNCHANGED orchVars
    \/ /\ accepted < MaxQueuedShutdown
       /\ QueueSet(KA, nextQueued)
       /\ UNCHANGED orchVars
    \/ asyncWriterRange
    \/ asyncWriterSet
    \/ asyncWriterSignal
    \/ activationTickerTick
    \/ activationTickerStop
    \/ ManagerCloseCache
    \/ ManagerCloseQueue
    \/ ManagerCloseTicker
    \/ backgroundWorkerFlush
    \/ backgroundWorkerClose
    \/ flushL0Swap
    \/ flushL0Append
    \/ flushL0Signal
    \/ compactionStep

\* Every goroutine keeps running while the process lives: a Close that has
\* begun goes on to its end, the writer and the worker take the steps they can
\* take, and a select with a closed channel among its cases takes that case
\* sooner or later.
SpecShutdownFair ==
    /\ Init
    /\ [][NextShutdown]_vars
    /\ WF_vars(ManagerCloseQueue)
    /\ WF_vars(ManagerCloseTicker)
    /\ WF_vars(asyncWriterRange)
    /\ WF_vars(asyncWriterSet)
    /\ WF_vars(asyncWriterSignal)
    /\ WF_vars(activationTickerStop)
    /\ SF_vars(backgroundWorkerClose)
    /\ WF_vars(flushL0Swap)
    /\ WF_vars(flushL0Append)
    /\ WF_vars(flushL0Signal)
    /\ WF_vars(compactL1Take)
    /\ WF_vars(compactL1Replace)

(* ------------------------------------------------------------------ *)
(* Segment on its own: one call, its inputs drawn at the start.        *)
(* ------------------------------------------------------------------ *)
InitChunks ==
    /\ InitCache
    /\ chunker \in SegmentCalls
    /\ batch = NoBatch

NextChunks == Segment

SpecChunks == InitChunks /\ [][NextChunks]_vars

(* ------------------------------------------------------------------ *)
(* Batches in force mode over a fresh cache.                           *)
(* ------------------------------------------------------------------ *)
MaxBatches == 3

NextForce ==
    \/ \E call \in batchCalls({CacheModeForce}, {PlainCache}, {KA, K43}, Thresholds, {0}) :
          getOllamaEmbeddingsCall(call, MaxBatches)
    \/ getOllamaEmbeddings
    \/ getOllamaEmbeddingsWithCacheFind
    \/ getOllamaEmbeddingsWithCacheRun
    \/ ollamaWorker
    \/ runOllamaWorkersReturn
    \/ getOllamaEmbeddingsWithCacheSet
    \/ getOllamaEmbeddingsWithCacheReturn
    \/ SetSignal
    \/ backgroundWorkerFlush
    \/ flushL0Swap
    \/ flushL0Append
    \/ flushL0Signal

SpecForce == Init /\ [][NextForce]_vars

(* ------------------------------------------------------------------ *)
(* Batches in adaptive mode over a fresh manager that is not closed.   *)
(* The entries stay in L0: the flush worker is not scheduled.          *)
(* ------------------------------------------------------------------ *)
MaxBatchesAdaptive == 2

NextAdaptiveBatch ==
    \/ \E call \in batchCalls({CacheModeAdaptive}, {ManagerCache}, {KA, K43}, {<<1, 1>>}, {1}) :
          getOllamaEmbeddingsCall(call, MaxBatchesAdaptive)
    \/ getOllamaEmbeddings
    \/ getOllamaEmbeddingsAdaptiveStart
    \/ getOllamaEmbeddingsAdaptiveCheck
    \/ getOllamaEmbeddingsWithCacheFind
    \/ getOllamaEmbeddingsWithCacheRun
    \/ ollamaWorker
    \/ runOllamaWorkersReturn
    \/ getOllamaEmbeddingsWithCacheSet
    \/ getOllamaEmbeddingsWithCacheReturn
    \/ populateQueueSet
    \/ SetSignal
    \/ asyncWriterRange
    \/ asyncWriterSet
    \/ asyncWriterSignal
    \/ activationTickerTick

SpecAdaptiveBatch == Init /\ [][NextAdaptiveBatch]_vars

(* ------------------------------------------------------------------ *)
(* One call of Segment with every kind of options, over a fresh cache, *)
(* with the provider, the manager's writer and its ticker running.     *)
(* ------------------------------------------------------------------ *)
SegmentCallsWithOptions ==
    segmentCalls({0, 2}, {"", CacheModeDisable, CacheModeForce, CacheModeAdaptive}, {NilCache, PlainCache, ManagerCache}, {<<1, 1>>}, BOOLEAN, 0..2, {1}, {KA})

InitSegment ==
    /\ InitCache
    /\ chunker \in SegmentCallsWithOptions
    /\ batch = NoBatch

NextSegment ==
    \/ Segment
    \/ segmentWithOllamaReturn
    \/ getOllamaEmbeddings
    \/ getOllamaEmbeddingsAdaptiveStart
    \/ getOllamaEmbeddingsAdaptiveNoManager
    \/ getOllamaEmbeddingsAdaptiveCheck
    \/ getOllamaEmbeddingsWithCacheFind
    \/ getOllamaEmbeddingsWithCacheRun
    \/ ollamaWorker
    \/ runOllamaWorkersReturn
    \/ getOllamaEmbeddingsWithCacheSet
    \/ getOllamaEmbeddingsWithCacheReturn
    \/ populateQueueSet
    \/ asyncWriterRange
    \/ asyncWriterSet
    \/ activationTickerTick

SpecSegment == InitSegment /\ [][NextSegment]_vars

(* ------------------------------------------------------------------ *)
(* Boundary detection on its own: scores and options drawn at the      *)
(* start.                                                              *)
(* ------------------------------------------------------------------ *)
InitBoundaries ==
    /\ InitCache
    /\ chunker \in ScoredCalls
    /\ batch = NoBatch

NextBoundaries == SegmentBoundaries

SpecBoundaries == InitBoundaries /\ [][NextBoundaries]_vars

(* ================================================================== *)
(* Properties.                                                         *)
(* ================================================================== *)
SeqRange(s) == {s[i] : i \in 1..Len(s)}

\* entries in L0 and entries in the segments of the segment list
l0Set == SeqRange(l0Entries)
l1Set == UNION {SeqRange(l1Segments[i].entries) : i \in 1..Len(l1Segments)}
\* what Find can see
visibleEntries == l0Set \cup l1Set
visibleBag == SeqBag(l0Entries) (+) SegmentsBag(l1Segments)
insertedKeys == {e.tfidfVector : e \in BagToSet(inserted)}

within(e, key, T) == CosineSimilarityGE(key, e.tfidfVector, T)

\* the worker waits in its select with nothing to do, and no Set is about to signal
reorganizerIdle ==
    /\ worker.pc \in {"select", "terminated"}
    /\ flushTrigger = 0
    /\ compactionTrigger = 0
    /\ setters = 0

\* C1: when Find(q, T) returns found = true, an entry visible at that moment
\* (in L0 or in a segment) has a key of similarity >= T to q and carries the
\* embedding returned.
C1_NoFalsePositive ==
    (lastCall.op = "Find" /\ lastCall.found) =>
        \E e \in visibleEntries :
            /\ within(e, lastCall.key, lastCall.threshold)
            /\ contents(e.denseEmbedding) = contents(lastCall.embedding)

\* a hit served from a segment in which another entry is not within the threshold
C1_Witness ==
    /\ lastCall.op = "Find"
    /\ lastCall.found
    /\ lastCall.tier = "L1"
    /\ \E e \in l1Set : ~within(e, lastCall.key, lastCall.threshold)

\* C2 (as claimed): in every reachable state, also in the middle of a flush or a
\* compaction, the bag of entries visible to Find equals the bag of entries
\* inserted by the Set calls so far.
C2_VisibleEqualsInserted == visibleBag = inserted

\* C3 (as claimed): whenever a visible entry is within T of the query, whatever
\* the number of terms of its key and of the query, Find
\* returns found = true with the embedding of an entry within T of the query.
C3_EverySimilarEntryFound ==
    (lastCall.op = "Find" /\
       \E e \in visibleEntries : within(e, lastCall.key, lastCall.threshold)) =>
        /\ lastCall.found
        /\ \E e \in visibleEntries :
              /\ within(e, lastCall.key, lastCall.threshold)
              /\ contents(e.denseEmbedding) = contents(lastCall.embedding)

\* the cases in which the index cannot miss: the matching entry is in L0, or it
\* is in a segment and neither its key nor the query has more than top-K terms
coveredByIndex(key, T) ==
    \/ \E e \in l0Set : within(e, key, T)
    \/ /\ T[1] > 0
       /\ Cardinality(keyTerms(key)) <= defaultTopK
       /\ \E e \in l1Set : /\ within(e, key, T)
                            /\ Cardinality(keyTerms(e.tfidfVector)) <= defaultTopK

\* C3 (amended): when an entry within T of the query is in L0, or T > 0 and it
\* is in a segment with both its key and the query of at most top-K terms,
\* Find returns found = true with the embedding of an entry within T of the
\* query.
C3_SimilarEntryFoundWithinTopK ==
    (lastCall.op = "Find" /\ coveredByIndex(lastCall.key, lastCall.threshold)) =>
        /\ lastCall.found
        /\ \E e \in visibleEntries :
              /\ within(e, lastCall.key, lastCall.threshold)
              /\ contents(e.denseEmbedding) = contents(lastCall.embedding)

\* a one-term query served from a segment while L0 holds no match
C3_Witness ==
    /\ lastCall.op = "Find"
    /\ lastCall.found
    /\ lastCall.tier = "L1"
    /\ Cardinality(keyTerms(lastCall.key)) <= defaultTopK
    /\ coveredByIndex(lastCall.key, lastCall.threshold)

\* C4 (as claimed): after at least l0FlushThreshold entries of distinct keys
\* and with the reorganizer idle, Find(k, 1.0) finds every inserted key k.
C4_InsertedKeysFoundAfterFlush ==
    (/\ lastCall.op = "Find"
     /\ lastCall.threshold = <<1, 1>>
     /\ lastCall.key \in insertedKeys
     /\ BagCardinality(inserted) >= l0FlushThreshold
     /\ Cardinality(insertedKeys) = BagCardinality(inserted)
     /\ reorganizerIdle
     /\ visibleBag = inserted) => lastCall.found

\* every call Find(key, 1.0) made in this state returns found = true
findable(key) == \A r \in FindResults(key, <<1, 1>>) : r.found

\* C5 (as claimed): the splice of a compaction leaves the set of inserted keys
\* that Find(k, 1.0) finds as it was.
C5_CompactionKeepsFindable ==
    [][(worker.pc = "compactBuild" /\ worker'.pc = "select") =>
          \A k \in insertedKeys : findable(k) => findable(k)']_vars

\* C8: the neighbor counter never decreases, a step changes it by at most
\* one, and only a step that appends an entry (Set) changes it: the steps of
\* flush, compaction, Find and Close leave it as it is.
C8_CounterChangedOnlyBySet ==
    [][/\ itemsWithNeighbors' >= itemsWithNeighbors
       /\ itemsWithNeighbors' <= itemsWithNeighbors + 1
       /\ (itemsWithNeighbors' # itemsWithNeighbors =>
              (lastCall'.op = "Set" /\ inserted' # inserted))]_vars

\* a compaction in progress over entries that were counted while in L0
C8_Witness ==
    /\ worker.pc = "compactBuild"
    /\ itemsWithNeighbors >= l0FlushThreshold
    /\ closeWorker

\* the key is, as CosineSimilarity computes it, within every threshold of itself
selfSimilar(key) == \A T \in Thresholds : CosineSimilarityGE(key, key, T)

C6_ActivatedOneWay == [][isActivated => isActivated']_vars

\* activated, and Close has run to its end afterwards
C6_Witness ==
    /\ isActivated
    /\ tickerStop
    /\ closer = "none"
    /\ panicked = "no"

\* n entries, all accepted by QueueSet and all written by the writer, with
\* keys mutually within the similarity threshold, on a manager that was started
\* on a fresh cache and on which Close was not called
queuedSimilar(n) ==
    /\ startOnce
    /\ nCloses = 0
    /\ accepted = n
    /\ inFlight = 0
    /\ BagCardinality(inserted) = n
    /\ \A k1, k2 \in insertedKeys : CosineSimilarityGE(k1, k2, similarityThreshold)

C11_QueueSetBoundedLossy ==
    /\ [](Len(setQueue) <= setQueueCap)
    /\ [](panicked = "no" => ENABLED QueueSet(FloodEntry.key, FloodEntry.embedding))
    /\ [][(lastCall'.op = "QueueSet" /\ ~setQueueClosed) =>
            /\ panicked' = panicked
            /\ inserted' = inserted
            /\ IF Len(setQueue) < setQueueCap
               THEN /\ lastCall'.queued
                    /\ Len(setQueue') = Len(setQueue) + 1
                    /\ SubSeq(setQueue', 1, Len(setQueue)) = setQueue
                    /\ setQueue'[Len(setQueue')].embedding = lastCall'.embedding
               ELSE /\ ~lastCall'.queued
                    /\ setQueue' = setQueue]_vars
    /\ [](/\ \A i \in 1..Len(setQueue) : setQueue[i].embedding # FloodEntry.embedding
          /\ writer.pc = "Set" => writer.entry.embedding # FloodEntry.embedding
          /\ \A e \in BagToSet(inserted) : e.denseEmbedding # FloodEntry.embedding
          /\ \A e \in visibleEntries : e.denseEmbedding # FloodEntry.embedding)

\* an entry was just offered to a full queue and dropped, Close not called
C11_Witness ==
    /\ lastCall.op = "QueueSet"
    /\ ~lastCall.queued
    /\ lastCall.embedding = FloodEntry.embedding
    /\ Len(setQueue) = setQueueCap
    /\ nCloses = 0
    /\ panicked = "no"

\* the entries a Find can return or the worker has in hand
heldEntries ==
    visibleEntries \cup
    (IF worker.pc = "flushBuild" THEN SeqRange(worker.entriesToFlush) ELSE {})

\* C12: whatever the caller writes into the slices it passed to Set or got from
\* Find, every entry in L0, in a segment or in the worker's hands keeps the
\* embedding contents it was inserted with, and a Find that returns found = true
\* returns the contents some entry within the threshold was inserted with.
C12_EmbeddingsIndependent ==
    /\ \A e \in heldEntries :
          [tfidfVector |-> e.tfidfVector, denseEmbedding |-> contents(e.denseEmbedding)]
              \in BagToSet(inserted)
    /\ (lastCall.op = "Find" /\ lastCall.found) =>
          \E e \in BagToSet(inserted) :
              /\ within(e, lastCall.key, lastCall.threshold)
              /\ e.denseEmbedding = contents(lastCall.embedding)

\* the caller has just overwritten its slices while entries inserted from them
\* are in L0 and in a segment
C12_Witness ==
    /\ lastCall.op = "WriteEmbedding"
    /\ l0Set # {}
    /\ l1Set # {}
    /\ \A e \in visibleEntries : contents(e.denseEmbedding) # lastCall.embedding

\* C13 (as claimed): every entry in L0, in a segment or in the worker's hands
\* has the key it was inserted with, whatever the caller does to its key map
\* after Set has returned.
C13_StoredKeyAsInserted ==
    \A e \in heldEntries :
        [tfidfVector |-> e.tfidfVector, denseEmbedding |-> contents(e.denseEmbedding)]
            \in BagToSet(inserted)

\* C14 (as claimed): once Close has been called, the worker does not leave its
\* select for a flush or a compaction, also when a signal is pending.
C14_NoNewWorkAfterClose ==
    [][(closeWorker /\ worker.pc = "select") =>
          worker'.pc \notin {"flushL0", "compactL1"}]_vars

\* the states of the worker
Flushing == worker.pc \in {"flushL0", "flushBuild", "flushSignal"}
Compacting == worker.pc \in {"compactL1", "compactBuild"}
Idle == worker.pc = "select"
Terminated == worker.pc = "terminated"

\* C15: the worker is in exactly one of Idle, Flushing, Compacting, Terminated;
\* it enters Flushing and Compacting only from Idle and leaves them only to
\* Idle; Terminated is entered from Idle and never left.
C15_SerialWorker ==
    /\ [](Idle \/ Flushing \/ Compacting \/ Terminated)
    /\ [][/\ Flushing => (Flushing' \/ Idle')
          /\ Compacting => (Compacting' \/ Idle')
          /\ Flushing' => (Flushing \/ Idle)
          /\ Compacting' => (Compacting \/ Idle)
          /\ Terminated' => (Terminated \/ Idle)
          /\ Terminated => Terminated']_vars

\* a compaction is running, after the flushes that made more segments than the
\* compaction trigger, and Close has not been called
C15_Witness ==
    /\ worker.pc = "compactBuild"
    /\ Len(l1Segments) > l1CompactionTrigger
    /\ ~closeWorker

\* C16: at most one flush signal is ever pending; a Set can run to its Unlock
\* and a Set past its Unlock can do its send in every state of the worker
\* (idle, flushing, compacting, terminated); the step up to Unlock sends no
\* signal, and the send leaves exactly one signal pending, whether or not one
\* was pending before, and touches nothing else of the cache.
C16_SetNeverWaits ==
    /\ [](flushTrigger \in {0, 1})
    /\ [](panicked = "no" /\ setters < MaxSetters => ENABLED Set(K33, 1, <<1, 1>>))
    /\ [](panicked = "no" /\ setters > 0 => ENABLED SetSignal)
    /\ [][lastCall'.op = "Set" => flushTrigger' = flushTrigger]_vars
    /\ [][setters' < setters =>
            /\ flushTrigger' = 1
            /\ l0Entries' = l0Entries
            /\ l1Segments' = l1Segments
            /\ worker' = worker]_vars

\* Sets went on after the worker had terminated: L0 is past the flush threshold,
\* every Set has returned and their signals were merged into the one pending
C16_Witness ==
    /\ worker.pc = "terminated"
    /\ Len(l0Entries) > l0FlushThreshold
    /\ setters = 0
    /\ flushTrigger = 1
    /\ panicked = "no"

\* C17: a call of Start made after the first one, whatever its arguments,
\* leaves the similarity threshold, the activation threshold, the async writer
\* and the activation ticker as they are; the first call sets the thresholds
\* from its arguments and launches the two goroutines.
C17_StartOnce ==
    /\ [][(lastCall'.op = "Start" /\ startOnce) =>
            UNCHANGED <<similarityThreshold, activationThreshold, writer, ticker,
                        startOnce>>]_vars
    /\ [][(lastCall'.op = "Start" /\ ~startOnce) =>
            /\ similarityThreshold' = lastCall'.similarityThreshold
            /\ activationThreshold' = lastCall'.activationThreshold
            /\ writer' = [pc |-> "range"]
            /\ ticker' = "running"
            /\ startOnce']_vars
    /\ [](~startOnce => (writer.pc = "none" /\ ticker = "none"))

\* a second Start, with another activation threshold, while the writer has an
\* entry in hand and Close has not been called
C17_Witness ==
    /\ lastCall.op = "Start"
    /\ lastCall.activationThreshold # activationThreshold
    /\ writer.pc = "Set"
    /\ ticker = "running"
    /\ nCloses = 0

\* C10 (as claimed): a second Close() does not panic.
C10_SecondCloseNoPanic == nCloses >= 2 => panicked = "no"


\* the token count of sentence i of the call
sentenceTokensOf(i) == chunker.tokenCounts[i + 1]

\* C18: in the chunks Segment returns, a chunk's NumTokens is at most MaxTokens
\* unless the chunk is a single sentence whose own token count exceeds
\* MaxTokens, and a sentence whose token count exceeds MaxTokens is the only
\* sentence of its chunk.
C18_ChunksWithinMaxTokens ==
    (chunker.pc = "returned" /\ ~chunker.err) =>
        \A c \in 1..Len(chunker.chunks) :
            LET chunk == chunker.chunks[c]
            IN /\ \/ chunk.NumTokens <= chunker.opts.MaxTokens
                  \/ /\ Len(chunk.Sentences) = 1
                     /\ sentenceTokensOf(chunk.Sentences[1]) > chunker.opts.MaxTokens
               /\ \A k \in 1..Len(chunk.Sentences) :
                     sentenceTokensOf(chunk.Sentences[k]) > chunker.opts.MaxTokens
                       => Len(chunk.Sentences) = 1

\* four sentences of 1, 1, 3 and 1 tokens under MaxTokens = 2 and no boundary:
\* a full chunk of two sentences, the oversized sentence alone, the last alone
C18_Witness ==
    /\ chunker.pc = "returned"
    /\ ~chunker.err
    /\ chunker.opts.MaxTokens = 2
    /\ chunker.tokenCounts = <<1, 1, 3, 1>>
    /\ chunker.chunks = <<makeChunk(<<0, 1>>, 2), makeChunk(<<2>>, 3), makeChunk(<<3>>, 1)>>


\* the sentences of the batch for which Find reported a hit, and those for
\* which it reported none
hits == {batch.finds[k].index : k \in {m \in 1..Len(batch.finds) : batch.finds[m].found}}
misses == {batch.finds[k].index : k \in {m \in 1..Len(batch.finds) : ~batch.finds[m].found}}

\* the entries a batch adds to the cache when it stores, for every sentence the
\* provider was called for, the provider's embedding under the sentence's key
storedForProvided ==
    SeqBag([k \in 1..Len(batch.provided) |->
              [tfidfVector |-> batch.keyVectors[batch.provided[k] + 1],
               denseEmbedding |-> batch.provided[k] + 1]])

\* a batch that runs the strategy of force mode: Find is called once for every
\* sentence, in order, with the sentence's key and CacheSimilarityThreshold; the
\* provider is called only for sentences without a hit, once each, and for all
\* of them once the workers are done; when the batch returns its vectors, a
\* sentence with a hit has the embedding Find returned, a sentence without has
\* the provider's, and the cache has gained the provider's embeddings under
\* their sentences' keys
behavesAsForce ==
    /\ \A k \in 1..Len(batch.finds) :
         /\ batch.finds[k].index = k - 1
         /\ batch.finds[k].key = batch.keyVectors[k]
         /\ batch.finds[k].threshold = batch.opts.CacheSimilarityThreshold
    /\ \A k \in 1..Len(batch.provided) :
         /\ batch.provided[k] \in misses
         /\ \A m \in 1..Len(batch.provided) : batch.provided[m] = batch.provided[k] => m = k
    /\ batch.pc \in {"withCacheSet", "returned"} =>
         /\ Len(batch.finds) = Len(batch.keyVectors)
         /\ SeqRangeOf(batch.provided) = misses
    /\ (batch.pc = "returned" /\ ~batch.err) =>
         /\ \A k \in 1..Len(batch.finds) :
              batch.vectors[k] = IF batch.finds[k].found
                                 THEN batch.finds[k].embedding
                                 ELSE newArray(k)
         /\ (batch.insertedAtCall (+) storedForProvided) \sqsubseteq inserted

\* C19: a batch in force mode calls the provider for exactly the sentences
\* whose key had no Find hit at CacheSimilarityThreshold; a sentence with a hit
\* gets the embedding Find returned; every Set of the batch is made with the
\* key of the sentence whose result it stores and with CacheSimilarityThreshold,
\* and the results the worker pool returned are all stored, and nothing else.
C19_ProviderOnlyForMisses ==
    /\ [](batch.pc \notin {"none", "called"} => behavesAsForce)
    /\ []((batch.pc = "returned" /\ ~batch.err) =>
             inserted = batch.insertedAtCall (+) storedForProvided)
    /\ [][lastCall'.op = "Set" =>
            /\ batch.pc = "withCacheSet"
            /\ lastCall'.key = batch.keyVectors[batch.results[1].index + 1]
            /\ lastCall'.threshold = batch.opts.CacheSimilarityThreshold]_vars

\* a batch of two sentences returned: the first had no hit and its embedding
\* came from the provider, the second had a hit and got a cached embedding that
\* is not the one the provider gives for it
C19_Witness ==
    /\ batch.pc = "returned"
    /\ ~batch.err
    /\ Len(batch.keyVectors) = 2
    /\ misses = {0}
    /\ hits = {1}
    /\ batch.provided = <<0>>
    /\ batch.vectors[1] = newArray(1)
    /\ contents(batch.vectors[2]) # 2


\* a batch that found the manager not activated: it never calls Find, it calls
\* the provider for every sentence, once each; when it returns its vectors they
\* are the provider's embeddings, and it has started one populate goroutine
\* whose pairs are every sentence's key with that sentence's embedding
observesOnly ==
    /\ batch.finds = <<>>
    /\ \A k \in 1..Len(batch.provided) :
         \A m \in 1..Len(batch.provided) : batch.provided[m] = batch.provided[k] => m = k
    /\ batch.pc = "returned" =>
         SeqRangeOf(batch.provided) = 0..(Len(batch.keyVectors) - 1)
    /\ (batch.pc = "returned" /\ ~batch.err) =>
         /\ \A k \in 1..Len(batch.keyVectors) : batch.vectors[k] = newArray(k)
         /\ Len(batch.populate) = batch.populatingAtCall + 1
         /\ batch.populate[Len(batch.populate)].pairs =
              [k \in 1..Len(batch.keyVectors) |->
                 [key |-> batch.keyVectors[k], embedding |-> newArray(k)]]

\* C20: in adaptive mode a batch takes the strategy of force mode exactly when
\* its IsActivated() call returned true.  A batch that read false never calls
\* Find or Set, calls the provider for every sentence, returns the provider's
\* embeddings and starts a goroutine that hands every (key, embedding) pair, in
\* order, to QueueSet; a batch that read true behaves as a batch of force mode.
C20_AdaptiveObservesUntilActivated ==
    /\ [](batch.pc \in {"withCacheFind", "workers", "withCacheSet", "returned"} =>
            IF batch.activated THEN behavesAsForce ELSE observesOnly)
    /\ [][(batch.pc = "adaptiveCheck" /\ batch'.pc # "adaptiveCheck") =>
            batch'.activated = isActivated]_vars
    /\ [][lastCall'.op = "Find" => batch.activated]_vars
    /\ [][(lastCall'.op = "Set" /\ batch' # batch) =>
            /\ batch.activated
            /\ lastCall'.key = batch.keyVectors[batch.results[1].index + 1]
            /\ lastCall'.threshold = batch.opts.CacheSimilarityThreshold]_vars
    /\ [][lastCall'.op = "QueueSet" =>
            \E g \in 1..Len(batch.populate) :
                /\ batch'.populate[g].next = batch.populate[g].next + 1
                /\ lastCall'.key = batch.populate[g].pairs[batch.populate[g].next].key
                /\ lastCall'.embedding =
                     batch.populate[g].pairs[batch.populate[g].next].embedding]_vars

\* the first batch found the manager not activated and its goroutine has handed
\* both of its pairs to QueueSet; the manager activated; the second batch read
\* IsActivated() true, had a hit for one sentence and called the provider for
\* the other
C20_Witness ==
    /\ isActivated
    /\ batch.pc = "returned"
    /\ ~batch.err
    /\ batch.n = 2
    /\ batch.activated
    /\ hits # {}
    /\ Len(batch.provided) = 1
    /\ Len(batch.populate) = 1
    /\ Len(batch.populate[1].pairs) = 2
    /\ batch.populate[1].next = 3


\* neither a cache nor a manager has been touched since construction, and no
\* embedding was asked for
nothingTouched ==
    /\ batch = NoBatch
    /\ lastCall = NoCall
    /\ inserted = EmptyBag
    /\ l0Entries = <<>>
    /\ ~startOnce
    /\ setQueue = <<>>
    /\ accepted = 0

C22_DefaultDepthThreshold ==
    (/\ chunker.pc = "bounded"
     /\ chunker.opts.DepthThreshold = 0
     /\ chunker.opts.MinSplitSimilarity = 0)
    => \A i \in chunker.boundaryIndices : twiceDepth(chunker.scores, i) >= 2 * 10


\* C23: whenever the manager is activated it was started and the neighbor
\* counter is at or above the activation threshold; isActivated changes only in
\* a step of the activation ticker that ends the ticker and in which
\* AnalyzeSimilarity returns activationThreshold or more.
C23_ActivatedOnlyByCheck ==
    /\ [](isActivated => (startOnce /\ itemsWithNeighbors >= activationThreshold))
    /\ [][isActivated' # isActivated =>
            /\ ticker = "running"
            /\ ticker' = "done"
            /\ AnalyzeSimilarity(similarityThreshold) >= activationThreshold
            /\ UNCHANGED <<itemsWithNeighbors, activationThreshold, l0Entries>>]_vars

\* the activation check has just activated a manager whose counter had reached
\* the threshold of 3, neither earlier nor later
C23_Witness ==
    /\ isActivated
    /\ ticker = "done"
    /\ activationThreshold = 3
    /\ itemsWithNeighbors = 3
    /\ nCloses = 0


\* C24: on a started manager that is not closed, the first activation check
\* made while the neighbor counter is at or above the activation threshold
\* activates the manager, so a counter at or above the threshold leads to
\* activation (or to a Close); an activated manager's ticker loop has ended, and
\* an ended loop never runs again.
C24_ActivationHappensAndLoopStops ==
    /\ [][(/\ startOnce /\ nCloses = 0 /\ ~isActivated
           /\ itemsWithNeighbors >= activationThreshold
           /\ ticker = "running" /\ ticker' # ticker) => isActivated']_vars
    /\ (startOnce /\ itemsWithNeighbors >= activationThreshold)
          ~> (isActivated \/ nCloses > 0)
    /\ [](isActivated => ticker = "done")
    /\ [][ticker = "done" => ticker' = "done"]_vars

\* the counter went past the threshold of 2 before the check that activated
\* the manager, and the loop has ended
C24_Witness ==
    /\ isActivated
    /\ ticker = "done"
    /\ activationThreshold = 2
    /\ itemsWithNeighbors = 3
    /\ nCloses = 0


\* the entry whose embedding is <<e>> is in L0 / in a segment of the list
inL0(e) == \E i \in 1..Len(l0Entries) : contents(l0Entries[i].denseEmbedding) = e
inL1(e) ==
    \E s \in 1..Len(l1Segments) : \E i \in 1..Len(l1Segments[s].entries) :
        contents(l1Segments[s].entries[i].denseEmbedding) = e

\* C25: an entry that is in L0 while L0 holds l0FlushThreshold entries or more
\* is later in a segment of the list, unless Close is called.
C25_FullL0IsFlushed ==
    \A e \in 1..MaxSetsFlush :
        (Len(l0Entries) >= l0FlushThreshold /\ inL0(e) /\ nCloses = 0)
            ~> (inL1(e) \/ nCloses > 0)

\* four entries went into one segment: the fourth was appended to an L0 that
\* had already reached the threshold, and no Set follows it
C25_Witness ==
    /\ BagCardinality(inserted) = l0FlushThreshold + 1
    /\ Len(l1Segments) = 1
    /\ \A e \in 1..(l0FlushThreshold + 1) : inL1(e)
    /\ nCloses = 0


\* the embeddings of the entries of a segment, in order
embeddingsOf(segment) ==
    [i \in 1..Len(segment.entries) |-> contents(segment.entries[i].denseEmbedding)]

\* C26: compactL1 started with fewer than l1CompactionTrigger segments returns
\* and leaves the list alone, and started with more it goes on to the merge; the
\* splice that ends it shortens the list found at that moment by
\* l1CompactionTargetCount - 1: the first segment of the new list holds the
\* entries of the l1CompactionTargetCount oldest segments in their order under
\* an index built from them, and behind it come all the other segments, each
\* unchanged, in the order they had.
C26_CompactionSplice ==
    /\ [][(worker.pc = "compactL1" /\ worker' # worker) =>
            /\ UNCHANGED l1Segments
            /\ worker'.pc = IF Len(l1Segments) < l1CompactionTrigger
                            THEN "select" ELSE "compactBuild"]_vars
    /\ [][(worker.pc = "compactBuild" /\ worker' # worker) =>
            /\ worker'.pc = "select"
            /\ Len(l1Segments) >= l1CompactionTrigger
            /\ Len(l1Segments') = Len(l1Segments) - l1CompactionTargetCount + 1
            /\ l1Segments'[1].entries =
                 mergedEntries(SubSeq(l1Segments, 1, l1CompactionTargetCount))
            /\ l1Segments'[1].index \in buildIndex(l1Segments'[1].entries, defaultTopK)
            /\ \A i \in 2..Len(l1Segments') :
                 l1Segments'[i] = l1Segments[i + l1CompactionTargetCount - 1]
            /\ UNCHANGED l0Entries]_vars

\* a compaction found four segments: the two oldest, of the entries 1 to 4 and
\* 5, are now one segment at the front and the two newer ones follow in order
C26_Witness ==
    /\ worker.pc = "select"
    /\ Len(l1Segments) = 3
    /\ embeddingsOf(l1Segments[1]) = <<1, 2, 3, 4, 5>>
    /\ embeddingsOf(l1Segments[2]) = <<6, 7, 8, 9>>
    /\ embeddingsOf(l1Segments[3]) = <<1>>


\* C27: whenever the worker waits in its select with no flush signal and no
\* compaction signal in a slot, no Set about to send one, and Close not called,
\* the list holds at most l1CompactionTrigger segments.
C27_IdleListWithinTrigger ==
    (/\ worker.pc = "select"
     /\ flushTrigger = 0
     /\ compactionTrigger = 0
     /\ setters = 0
     /\ nCloses = 0)
        => Len(l1Segments) <= l1CompactionTrigger


\* C28: whenever L0 holds l0FlushThreshold entries or more, a flush signal is
\* in the slot, or a Set whose shouldFlush is true (called directly or by the
\* manager's writer) has not yet done its send, or the worker has taken a flush
\* signal and not yet swapped L0 out.
C28_FullL0HasFlushComing ==
    Len(l0Entries) >= l0FlushThreshold
        => \/ flushTrigger > 0
           \/ setters > 0
           \/ writer.pc = "signal"
           \/ worker.pc = "flushL0"

\* L0 is above the threshold with the slot empty and no Set on its way to the
\* send: only the flush the worker has begun stands for the entries
C28_Witness ==
    /\ Len(l0Entries) > l0FlushThreshold
    /\ flushTrigger = 0
    /\ setters = 0
    /\ worker.pc = "flushL0"


\* the segments in which an entry listed under one of topTerms is within T of key
matchingSegments(key, T, topTerms) ==
    {s \in 1..Len(l1Segments) :
        \E idx \in candidates(l1Segments[s], topTerms) :
            CosineSimilarityGE(key, l1Segments[s].entries[idx].tfidfVector, T)}

\* C29: after a Find, if some entry of L0 is within the threshold of the query
\* the result is found, from L0, with the embedding of the first such entry of
\* L0; if none is, a found result is from L1, with the embedding of a matching
\* candidate of the last segment of the list that has one.
C29_FindOrder ==
    lastCall.op = "Find" =>
        LET key == lastCall.key
            T == lastCall.threshold
            inL0Within == {i \in 1..Len(l0Entries) :
                             CosineSimilarityGE(key, l0Entries[i].tfidfVector, T)}
        IN IF inL0Within # {}
           THEN /\ lastCall.found
                /\ lastCall.tier = "L0"
                /\ \E i \in inL0Within :
                     /\ \A j \in inL0Within : i <= j
                     /\ contents(lastCall.embedding) = contents(l0Entries[i].denseEmbedding)
           ELSE \E topTerms \in getTopK(key, defaultTopK) :
                  LET segs == matchingSegments(key, T, topTerms)
                  IN IF segs = {}
                     THEN ~lastCall.found
                     ELSE /\ lastCall.found
                          /\ lastCall.tier = "L1"
                          /\ \E s \in segs :
                               /\ \A s2 \in segs : s2 <= s
                               /\ \E idx \in candidates(l1Segments[s], topTerms) :
                                    /\ CosineSimilarityGE(
                                           key, l1Segments[s].entries[idx].tfidfVector, T)
                                    /\ contents(lastCall.embedding) =
                                         contents(l1Segments[s].entries[idx].denseEmbedding)

\* a Find answered from L0 while two entries of L0 and an entry of a segment
\* are within the threshold
C29_Witness ==
    /\ lastCall.op = "Find"
    /\ lastCall.tier = "L0"
    /\ Cardinality(l0Hits(lastCall.key, lastCall.threshold)) >= 2
    /\ \E topTerms \in getTopK(lastCall.key, defaultTopK) :
         matchingSegments(lastCall.key, lastCall.threshold, topTerms) # {}


\* the embeddings of a sequence of cache entries, in order
storedEmbeddings(entries) ==
    [i \in 1..Len(entries) |-> contents(entries[i].denseEmbedding)]

\* the embeddings passed to the cache's Set so far, in the order of the calls
passedToSet ==
    storedEmbeddings(mergedEntries(l1Segments))
      \o (IF worker.pc = "flushBuild" THEN storedEmbeddings(worker.entriesToFlush) ELSE <<>>)
      \o storedEmbeddings(l0Entries)

\* the embeddings accepted and not yet passed to Set: the writer's, then the queue
notYetPassed ==
    (IF writer.pc = "Set" THEN <<contents(writer.entry.embedding)>> ELSE <<>>)
      \o [i \in 1..Len(setQueue) |-> contents(setQueue[i].embedding)]

\* C30: the entries passed to Set followed by those still waiting are the
\* accepted entries, each once, in the order accepted; the writer calls Set with
\* the similarity threshold of the first Start; on a started manager a waiting
\* entry is never stranded by the end of the writer or of the process, and it is
\* passed to Set in the end, also after Close.
C30_AcceptedEntriesReachSet ==
    /\ [](passedToSet \o notYetPassed = [i \in 1..accepted |-> i])
    /\ [][(~startOnce /\ lastCall'.op = "Start")
            => similarityThreshold' = lastCall'.similarityThreshold]_vars
    /\ [][writer.pc # "none" => UNCHANGED similarityThreshold]_vars
    /\ [][(writer.pc = "Set" /\ writer' # writer)
            => (lastCall'.op = "Set" /\ lastCall'.threshold = similarityThreshold)]_vars
    /\ []((writer.pc # "none" /\ notYetPassed # <<>>)
            => (panicked = "no" /\ writer.pc # "done"))
    /\ \A e \in 1..MaxQueued :
         (writer.pc # "none" /\ \E i \in 1..Len(notYetPassed) : notYetPassed[i] = e)
            ~> (\E i \in 1..Len(passedToSet) : passedToSet[i] = e)


\* the process has ended by a panic, and every goroutine with it
processEnded == panicked # "no"

\* C31: once Close has been called on a manager whose Start has run, the
\* worker, the writer and the activation ticker all come to their end (at the
\* latest with the process), whatever is queued or signalled at that time.
C31_CloseEndsGoroutines ==
    (writer.pc # "none" /\ nCloses > 0)
        ~> (\/ processEnded
            \/ /\ worker.pc = "terminated"
               /\ writer.pc = "done"
               /\ ticker = "done")

\* all three have ended after one Close, the writer having stored what was
\* queued, and a flush signal is left in its slot for good
C31_Witness ==
    /\ nCloses = 1
    /\ panicked = "no"
    /\ worker.pc = "terminated"
    /\ writer.pc = "done"
    /\ ticker = "done"
    /\ ~isActivated
    /\ flushTrigger = 1
    /\ BagCardinality(inserted) = accepted
    /\ accepted >= l0FlushThreshold


\* the postings of a segment name positions of its entries, and the terms
\* entry i is listed under are a top-K choice of the terms of its key
wellFormedIndex(segment) ==
    /\ \A t \in Terms : segment.index[t] \subseteq 1..Len(segment.entries)
    /\ \A i \in 1..Len(segment.entries) :
         {t \in Terms : i \in segment.index[t]}
             \in getTopK(segment.entries[i].tfidfVector, defaultTopK)

\* C32: every segment of the list has a well-formed index, and a step changes
\* the list only by appending a segment or by putting one segment in the place
\* of the l1CompactionTargetCount oldest: a listed segment's entries and index
\* stay as they are.
C32_SegmentsWellFormedAndFixed ==
    /\ [](\A s \in 1..Len(l1Segments) : wellFormedIndex(l1Segments[s]))
    /\ [][\/ l1Segments' = l1Segments
          \/ /\ Len(l1Segments') = Len(l1Segments) + 1
             /\ SubSeq(l1Segments', 1, Len(l1Segments)) = l1Segments
          \/ /\ Len(l1Segments) >= l1CompactionTargetCount
             /\ Len(l1Segments') = Len(l1Segments) - l1CompactionTargetCount + 1
             /\ SubSeq(l1Segments', 2, Len(l1Segments'))
                  = SubSeq(l1Segments, l1CompactionTargetCount + 1, Len(l1Segments))]_vars


\* sentences i and j are in one chunk of the result
sameChunk(i, j) ==
    \E c \in 1..Len(chunker.chunks) :
        /\ \E k \in 1..Len(chunker.chunks[c].Sentences) : chunker.chunks[c].Sentences[k] = i
        /\ \E k \in 1..Len(chunker.chunks[c].Sentences) : chunker.chunks[c].Sentences[k] = j

\* the sum of the token counts of a list of sentences
RECURSIVE tokensOf(_)
tokensOf(sentences) ==
    IF sentences = <<>> THEN 0
    ELSE sentenceTokensOf(sentences[1]) + tokensOf(Tail(sentences))

\* the tokens of the chunk that holds sentence i
chunkTokensAt(i) ==
    LET c == CHOOSE d \in 1..Len(chunker.chunks) :
                 \E k \in 1..Len(chunker.chunks[d].Sentences) :
                     chunker.chunks[d].Sentences[k] = i
    IN tokensOf(chunker.chunks[c].Sentences)

\* C33: in the chunks Segment returns, sentences i - 1 and i are in different
\* chunks if gap i - 1 is a boundary, and if they are in different chunks then
\* gap i - 1 is a boundary, or the chunk of sentence i - 1 together with
\* sentence i has more than MaxTokens tokens, or one of the two sentences alone
\* has more than MaxTokens tokens.
C33_SplitsOnlyAtBoundariesAndLimit ==
    (chunker.pc = "returned" /\ ~chunker.err) =>
        \A i \in 1..(Len(chunker.tokenCounts) - 1) :
            /\ (i - 1) \in chunker.boundaryIndices => ~sameChunk(i - 1, i)
            /\ ~sameChunk(i - 1, i) =>
                 \/ (i - 1) \in chunker.boundaryIndices
                 \/ chunkTokensAt(i - 1) + sentenceTokensOf(i) > chunker.opts.MaxTokens
                 \/ sentenceTokensOf(i - 1) > chunker.opts.MaxTokens
                 \/ sentenceTokensOf(i) > chunker.opts.MaxTokens

\* four sentences of one token under MaxTokens = 2 with a boundary at gap 2:
\* a split by the limit alone after sentence 1, a split by the boundary alone
\* after sentence 2, and no split at gap 0
C33_Witness ==
    /\ chunker.pc = "returned"
    /\ ~chunker.err
    /\ chunker.opts.MaxTokens = 2
    /\ chunker.tokenCounts = <<1, 1, 1, 1>>
    /\ chunker.boundaryIndices = {2}
    /\ sameChunk(0, 1)
    /\ ~sameChunk(1, 2)
    /\ ~sameChunk(2, 3)

\* the sentences of chunks c to the last, in order
RECURSIVE sentencesFrom(_)
sentencesFrom(c) ==
    IF c > Len(chunker.chunks) THEN <<>>
    ELSE chunker.chunks[c].Sentences \o sentencesFrom(c + 1)

\* C34: in the chunks Segment returns, no chunk is empty, the chunks' sentences
\* one after the other are the sentences of the input in their order, and each
\* chunk's NumTokens is the sum of the token counts of its sentences.
C34_ChunksPartitionTheInput ==
    (chunker.pc = "returned" /\ ~chunker.err) =>
        /\ \A c \in 1..Len(chunker.chunks) :
             /\ chunker.chunks[c].Sentences # <<>>
             /\ chunker.chunks[c].NumTokens = tokensOf(chunker.chunks[c].Sentences)
        /\ sentencesFrom(1) = [i \in 1..Len(chunker.tokenCounts) |-> i - 1]

\* sentences of 0, 2, 1 and 3 tokens under MaxTokens = 2: a chunk of two
\* sentences, a chunk closed by the limit, and the oversized sentence alone
C34_Witness ==
    /\ chunker.pc = "returned"
    /\ ~chunker.err
    /\ chunker.opts.MaxTokens = 2
    /\ chunker.tokenCounts = <<0, 2, 1, 3>>
    /\ chunker.boundaryIndices = {}
    /\ Len(chunker.chunks) = 3
    /\ chunker.chunks[1].Sentences = <<0, 1>>
    /\ chunker.chunks[3].NumTokens = 3


\* C35: a call of QueueSet returns without a panic in every state it is made
\* in, also after Close has closed the queue or while Close is under way.
C35_QueueSetNeverPanics ==
    lastCall.op = "QueueSet" => panicked = "no"


\* C36: the n-th entry passed to the cache's Set has the embedding the n-th
\* accepted call of QueueSet was given, <<n>>, whatever the caller has written
\* into its slices since.
C36_QueuedEmbeddingAsGiven ==
    \A i \in 1..Len(passedToSet) : passedToSet[i] = i


\* C37: in force mode a batch with a failed provider call stores nothing: from
\* the failed call on, every entry the cache was given is one it had been
\* given when the batch was called, also when other provider calls of the
\* batch succeeded; the batch is not at its Set loop and returns the error
\* and no vector.
C37_FailedBatchStoresNothing ==
    (/\ batch.pc # "none"
     /\ batch.strategy = "withCache"
     /\ \E r \in 1..Len(batch.resultsChan) : batch.resultsChan[r].err)
        => /\ inserted = batch.insertedAtCall
           /\ batch.pc \in {"workers", "returned"}
           /\ batch.pc = "returned" =>
                 /\ batch.err
                 /\ \A i \in 1..Len(batch.vectors) : batch.vectors[i] = 0

\* a batch of two misses has returned the error: one provider call succeeded,
\* the other failed, and the cache had an entry before the batch
C37_Witness ==
    /\ batch.pc = "returned"
    /\ batch.strategy = "withCache"
    /\ batch.err
    /\ Len(batch.resultsChan) = 2
    /\ \E r \in 1..2 : ~batch.resultsChan[r].err
    /\ \E r \in 1..2 : batch.resultsChan[r].err
    /\ BagCardinality(batch.insertedAtCall) > 0
    /\ inserted = batch.insertedAtCall


\* the pool of the current call is at work
poolRunning == batch.pc \in {"runOllamaWorkers", "send", "wait"}

\* the jobs the workers have taken, and the jobs of the results sent
jobsTaken == [k \in 1..Len(batch.taken) |-> batch.taken[k].job]
jobsAnswered == [k \in 1..Len(batch.resultsChan) |-> batch.resultsChan[k].index]

\* seq holds every job of the call exactly once
eachJobOnce(seq) ==
    /\ Len(seq) = batch.numJobs
    /\ \A j \in 0..(batch.numJobs - 1) : \E k \in 1..Len(seq) : seq[k] = j

\* C38: the worker pool never deadlocks and always terminates, for 0 to
\* MaxPoolJobs jobs, every worker count the environment can give and every
\* mix of failing jobs.  While the pool runs a step is possible, no job is
\* taken twice, a worker with a result finds room in the result channel and
\* the sender of the jobs finds room in the job channel; when the call has
\* returned every job was taken once and has one result, every worker has
\* ended, the error is returned exactly when a job failed, and without a
\* failure position i of the output holds the embedding of job i; a call
\* always returns.
C38_PoolTerminatesOneResultPerJob ==
    /\ [](batch.pc # "none" /\ poolRunning =>
            /\ ENABLED poolStep
            /\ \A k, m \in 1..Len(jobsTaken) : jobsTaken[k] = jobsTaken[m] => k = m
            /\ \A w \in 1..batch.numWorkers :
                  batch.workers[w].pc = "result" =>
                     Len(batch.resultsChan) < batch.resultsCap
            /\ (batch.pc = "send" /\ batch.next <= batch.numJobs) =>
                  Len(batch.jobs) < batch.jobsCap)
    /\ [](batch.pc = "returned" =>
            /\ eachJobOnce(jobsTaken)
            /\ eachJobOnce(jobsAnswered)
            /\ \A w \in 1..batch.numWorkers : batch.workers[w].pc = "done"
            /\ batch.err <=> \E r \in 1..Len(batch.resultsChan) : batch.resultsChan[r].err
            /\ ~batch.err =>
                  \A r \in 1..Len(batch.resultsChan) :
                     batch.vectors[batch.resultsChan[r].index + 1]
                        = batch.resultsChan[r].embedding)
    /\ (batch.pc = "runOllamaWorkers") ~> (batch.pc = "returned")

\* two jobs were done by two workers, each of which took a job, the result of
\* the second job came before the result of the first, and the call has
\* returned the vectors
C38_Witness ==
    /\ batch.pc = "returned"
    /\ batch.numJobs = 2
    /\ batch.numWorkers = 2
    /\ ~batch.err
    /\ batch.taken[1].worker # batch.taken[2].worker
    /\ jobsAnswered = <<1, 0>>
    /\ batch.vectors = <<newArray(1), newArray(2)>>


\* C39: every segment a flush creates holds at least l0FlushThreshold entries:
\* a step of flushL0 that drains L0 finds at least l0FlushThreshold entries in
\* it, and a step that appends the flush's segment appends one of at least
\* l0FlushThreshold entries, also when the flush was started by a signal left
\* in its slot by a Set that ran beside the flush before.
C39_FlushedSegmentsAreFull ==
    /\ [][(worker.pc = "flushL0" /\ l0Entries # <<>> /\ l0Entries' = <<>>)
            => Len(l0Entries) >= l0FlushThreshold]_vars
    /\ [][(worker.pc = "flushBuild" /\ Len(l1Segments') = Len(l1Segments) + 1)
            => Len(l1Segments'[Len(l1Segments')].entries) >= l0FlushThreshold]_vars

====
